---- MODULE Spec2Model ----
(***************************************************************************)
(* Model of mrobotics: the breakpoint search, the polyline curve           *)
(* (construction, add, evaluation), the curve-linearization projection of  *)
(* polyline.py, base.py and cubic.py, and the users of a curve: the        *)
(* terminal-state selector, the path follower, the car simulator.          *)
(*                                                                         *)
(* Specifications.  Spec: the curves and project.  SpecOwn: a caller that  *)
(* keeps and overwrites the arrays it passes.  SpecEval: the combined      *)
(* evaluator of the polyline.  SpecCurv: the one-piece cubic of            *)
(* cubic_onepiece.py and the curvature of the spline curve.  SpecBin: the  *)
(* waypoint file.  SpecLoop: the periodic spline curve.  SpecPose: pose2   *)
(* and wrap_angle.  SpecDomain: the domain of a polyline with offset       *)
(* breakpoints.  SpecSel: the p0v0pfvf_selector.  SpecFollow: the          *)
(* stanley_path_follower.  SpecSim: the kinematic_car_simulator.  All of   *)
(* them start from Init and share the variables; each leaves the objects   *)
(* of the others as Init has them.                                         *)
(*                                                                         *)
(* Numbers.  The code computes in IEEE double precision.  The model        *)
(* computes with exact extended rationals <<n, d>>: d > 0 is the rational  *)
(* n/d in lowest terms, <<1,0>> and <<-1,0>> are +inf and -inf, <<0,0>> is *)
(* NaN, with numpy's rules for them (x/0 = inf, 0/0 = NaN, 0*inf = NaN,    *)
(* inf-inf = NaN, every comparison with NaN false).  Rounding is not       *)
(* modelled; square roots are taken of perfect squares only, so the        *)
(* waypoint inputs are restricted to sequences whose chord lengths are     *)
(* rational.                                                               *)
(*                                                                         *)
(* Angles.  An angle is a number of half turns: the number x stands for    *)
(* the angle x * pi, so that pi is 1 and 2 * pi is 2, and the comparisons  *)
(* and the sums of the code that involve pi are exact.  Sines and cosines  *)
(* are taken of multiples of pi / 2 only.                                  *)
(***************************************************************************)
EXTENDS Integers, Sequences, FiniteSets, TLC

\* ------------------------------------------------------------ bounds
\* largest number of waypoints a polyline holds in the model
MaxWaypts == 4
\* largest iter_max passed explicitly to project
MaxIter == 2
\* default value of the parameter iter_max of project
DefaultIterMax == 5
\* longest simulation, in steps of length 1
MaxSimSteps == 3

\* ------------------------------------------------------------ numbers
Abs(n) == IF n < 0 THEN -n ELSE n
Sign(n) == IF n < 0 THEN -1 ELSE IF n > 0 THEN 1 ELSE 0

RECURSIVE GCD(_, _)
GCD(a, b) == IF b = 0 THEN a ELSE GCD(b, a % b)

\* the extended rational n/d, normalised
Q(n, d) ==
    IF d = 0 THEN <<Sign(n), 0>>
    ELSE LET g == GCD(Abs(n), Abs(d))
         IN  <<(Sign(d) * n) \div g, Abs(d) \div g>>

R(n) == <<n, 1>>
NaN == <<0, 0>>
IsNaN(x) == x = NaN
IsFinite(x) == x[2] # 0

Neg(x) == <<-x[1], x[2]>>
FAdd(x, y) ==
    IF IsFinite(x) /\ IsFinite(y) THEN Q(x[1] * y[2] + y[1] * x[2], x[2] * y[2])
    ELSE IF IsNaN(x) \/ IsNaN(y) THEN NaN
    ELSE IF IsFinite(y) THEN x
    ELSE IF IsFinite(x) THEN y
    ELSE IF x = y THEN x ELSE NaN
FSub(x, y) == FAdd(x, Neg(y))
FMul(x, y) == Q(x[1] * y[1], x[2] * y[2])
FDiv(x, y) == Q(x[1] * y[2] * (IF y[1] < 0 THEN -1 ELSE 1), x[2] * Abs(y[1]))
FAbs(x) == <<Abs(x[1]), x[2]>>
\* x < y; false when either is NaN
FLt(x, y) ==
    /\ ~IsNaN(x)
    /\ ~IsNaN(y)
    /\ IF IsFinite(x) \/ IsFinite(y) THEN x[1] * y[2] < y[1] * x[2] ELSE x[1] < y[1]
FLe(x, y) == ~IsNaN(x) /\ ~IsNaN(y) /\ ~FLt(y, x)

\* square root of a perfect square
ISqrt(n) == CHOOSE r \in 0..n : r * r = n
IsSquare(n) == \E r \in 0..n : r * r = n
FSqrt(x) == IF IsFinite(x) THEN <<ISqrt(x[1]), ISqrt(x[2])>> ELSE x

\* 2-vectors of numbers
Vec(x, y) == <<R(x), R(y)>>
VSub(a, b) == <<FSub(a[1], b[1]), FSub(a[2], b[2])>>
VAdd(a, b) == <<FAdd(a[1], b[1]), FAdd(a[2], b[2])>>
VScale(a, k) == <<FMul(a[1], k), FMul(a[2], k)>>
VDivS(a, k) == <<FDiv(a[1], k), FDiv(a[2], k)>>
Dot(a, b) == FAdd(FMul(a[1], b[1]), FMul(a[2], b[2]))
VNorm(a) == FSqrt(Dot(a, a))
VFinite(a) == IsFinite(a[1]) /\ IsFinite(a[2])

\* np.clip(x, lo, hi) = minimum(maximum(x, lo), hi); NaN propagates
Clip(x, lo, hi) ==
    IF IsNaN(x) THEN NaN
    ELSE IF FLt(x, lo) THEN lo
    ELSE IF FLt(hi, x) THEN hi ELSE x

\* ------------------------------------------------------------ state
VARIABLES
    cls,            \* class of the curve object: "none" before construction
    XY_waypoints,   \* self.XY_waypoints, a sequence of 2-vectors
    idx2arclen,     \* self.idx2arclen, a sequence of numbers
    pc,             \* "idle", or "project" while a project call is in its loop
    fr,             \* the local variables of the running project call
    ret,            \* what the last completed call returned or raised
    spline,         \* the spline tables spl_x, spl_y of a spline curve, <<>> otherwise
    XY_base,        \* the buffer self.XY_waypoints lives in: "own" or "caller"
    caller_XY,      \* the array the caller passed to __init__ or add and still holds
    seg,            \* the spline_2d_onepiece object: coeff, t0, T, oneOverT
    file,           \* the contents of the waypoint file, <<>> while there is none
    pose,           \* the pose2 object: x, y, theta
    sel,            \* the p0v0pfvf_selector object: progress, progress_change_ub
    ctr,            \* the stanley_path_follower object: s_last, l, u_max, k, f_update, v_enable
    sim             \* the kinematic_car_simulator object: step_sz, num_steps, X, U, plant, step_ptr

vars == <<cls, XY_waypoints, idx2arclen, pc, fr, ret, spline, XY_base, caller_XY, seg, file,
          pose, sel, ctr, sim>>
\* the objects that use a curve or stand alone
robot_objs == <<pose, sel, ctr, sim>>
\* the objects that are not the curve
other_objs == <<seg, file, robot_objs>>

\* ------------------------------------------------------------ search_lhs_bkpt.py
\* Python indices are 0-based: breakpoint i of the code is bkpts[i + 1] here.
RECURSIVE linear_search_from(_, _, _)
linear_search_from(bkpts, query_arclen, i) ==
    IF i >= Len(bkpts) THEN -2
    ELSE IF FLt(query_arclen, bkpts[i + 1]) THEN i - 1
    ELSE linear_search_from(bkpts, query_arclen, i + 1)

\* mutant: the comparison arclen >= query_arclen instead of arclen > query_arclen
RECURSIVE linear_search_ge_from(_, _, _)
linear_search_ge_from(bkpts, query_arclen, i) ==
    IF i >= Len(bkpts) THEN -2
    ELSE IF FLe(query_arclen, bkpts[i + 1]) THEN i - 1
    ELSE linear_search_ge_from(bkpts, query_arclen, i + 1)

linear_search_ge(bkpts, query_arclen) == linear_search_ge_from(bkpts, query_arclen, 0)

linear_search(bkpts, query_arclen) == linear_search_from(bkpts, query_arclen, 0)

\* ------------------------------------------------------------ numpy arrays
\* an array argument: its shape and its elements in row-major order
ndarray(shape, data) == [shape |-> shape, data |-> data]
ndim(a) == Len(a.shape)
\* the N x 2 array whose rows are the 2-vectors of w
array2d(w) ==
    ndarray(<<Len(w), 2>>,
            [k \in 1..(2 * Len(w)) |-> w[(k + 1) \div 2][IF k % 2 = 1 THEN 1 ELSE 2]])
\* caller_XY while the caller holds no array
NoArray == ndarray(<<0>>, <<>>)
\* the rows of a 2-D array
rows(a) ==
    [i \in 1..a.shape[1] |-> [j \in 1..a.shape[2] |-> a.data[(i - 1) * a.shape[2] + j]]]

\* The buffer an array lives in: "caller" for an array the caller holds, "own"
\* for one only the curve object refers to.  A write by the caller to its array
\* shows in every array that lives in the caller's buffer.
np_view(base) == base
\* ndarray.copy() allocates a new buffer
np_copy(base) == "own"
\* np.vstack allocates a new buffer whatever its arguments live in
np_vstack(base_a, base_b) == "own"

\* ------------------------------------------------------------ polyline.py
\* np.cumsum of the chord lengths np.linalg.norm(np.diff(XY_waypts))
RECURSIVE calc_cum_distance(_)
calc_cum_distance(XY_waypts) ==
    IF Len(XY_waypts) < 2 THEN <<>>
    ELSE LET n == Len(XY_waypts)
             head == calc_cum_distance(SubSeq(XY_waypts, 1, n - 1))
             dist == VNorm(VSub(XY_waypts[n], XY_waypts[n - 1]))
         IN  Append(head, IF head = <<>> THEN dist ELSE FAdd(head[Len(head)], dist))

\* the first assert of polyline.__init__ alone
init_asserts_columns_only(XY_waypoints_in) ==
    ndim(XY_waypoints_in) = 2 /\ XY_waypoints_in.shape[2] = 2

\* the two asserts of polyline.__init__
init_asserts(XY_waypoints_in) ==
    /\ ndim(XY_waypoints_in) = 2 /\ XY_waypoints_in.shape[2] = 2
    /\ XY_waypoints_in.shape[1] >= 2

\* np.append(a, b): the shift get_tot_dist() left out
AppendUnshifted(a, k, b) == a \o b

\* np.append(a, k + b): the sequence a followed by every entry of b plus k
AppendShifted(a, k, b) == a \o [j \in 1..Len(b) |-> FAdd(k, b[j])]

get_tot_dist(arclens) == arclens[Len(arclens)]

\* arc_length_test > 0. and arc_length_test < self.get_tot_dist()
is_interior(arclens, arc_length_test) ==
    FLt(R(0), arc_length_test) /\ FLt(arc_length_test, get_tot_dist(arclens))

\* mutant: ABOVE_LAST translated to the last breakpoint instead of the last segment
search_first_bkpt_idx_last(arclens, arclength) ==
    LET idx == linear_search(arclens, arclength)
    IN  IF idx = -1 THEN 0
        ELSE IF idx = -2 THEN Len(arclens) - 1
        ELSE idx

search_first_bkpt_idx(arclens, arclength) ==
    LET idx == linear_search(arclens, arclength)
    IN  IF idx = -1 THEN 0
        ELSE IF idx = -2 THEN Len(arclens) - 2
        ELSE idx

\* self.XY_waypoints[idx:idx+2] unpacked into p0, p1 (idx is 0-based)
_get_pos(XY, arclens, arclength, clip) ==
    LET s == IF clip THEN Clip(arclength, R(0), get_tot_dist(arclens)) ELSE arclength
        idx == search_first_bkpt_idx(arclens, s)
        p0 == XY[idx + 1]
        p1 == XY[idx + 2]
        scale == FDiv(FSub(s, arclens[idx + 1]), FSub(arclens[idx + 2], arclens[idx + 1]))
    IN  VAdd(p0, VScale(VSub(p1, p0), scale))

_get_utang(XY, arclens, arclength, clip) ==
    LET s == IF clip THEN Clip(arclength, R(0), get_tot_dist(arclens)) ELSE arclength
        idx == search_first_bkpt_idx(arclens, s)
        p0_to_p1 == VSub(XY[idx + 2], XY[idx + 1])
    IN  VDivS(p0_to_p1, VNorm(p0_to_p1))

\* _get_pos_utang without the clip
_get_pos_utang_unclipped(XY, arclens, arclength, clip) ==
    LET s == arclength
        idx == search_first_bkpt_idx(arclens, s)
        p0 == XY[idx + 1]
        p0_to_p1 == VSub(XY[idx + 2], p0)
        scale == FDiv(FSub(s, arclens[idx + 1]), FSub(arclens[idx + 2], arclens[idx + 1]))
    IN  <<VAdd(p0, VScale(p0_to_p1, scale)), VDivS(p0_to_p1, VNorm(p0_to_p1))>>

\* the calls of search_first_bkpt_idx one evaluation of _get_pos_utang makes:
\* the index each of them returns
_get_pos_utang_searches(XY, arclens, arclength, clip) ==
    LET s == IF clip THEN Clip(arclength, R(0), get_tot_dist(arclens)) ELSE arclength
    IN  <<search_first_bkpt_idx(arclens, s)>>

_get_pos_utang(XY, arclens, arclength, clip) ==
    LET s == IF clip THEN Clip(arclength, R(0), get_tot_dist(arclens)) ELSE arclength
        idx == search_first_bkpt_idx(arclens, s)
        p0 == XY[idx + 1]
        p0_to_p1 == VSub(XY[idx + 2], p0)
        scale == FDiv(FSub(s, arclens[idx + 1]), FSub(arclens[idx + 2], arclens[idx + 1]))
    IN  <<VAdd(p0, VScale(p0_to_p1, scale)), VDivS(p0_to_p1, VNorm(p0_to_p1))>>

\* get_pos(arclength, clip=True) with a float argument: one row, the value of _get_pos
get_pos(XY, arclens, arclength, clip) == _get_pos(XY, arclens, arclength, clip)

\* ------------------------------------------------------------ cubic.py (tables)
NoSpline == <<>>

\* splrep(x, y, s=0): the knots t, the B-spline coefficients c and the degree k
\* of the interpolating cubic spline with the not-a-knot end condition.  For
\* data that are an affine function of x (the only data the model fits) the
\* coefficients are the data function at the Greville abscissae of the knots.
splrep_knots(x) ==
    LET n == Len(x)
    IN  <<x[1], x[1], x[1], x[1]>> \o SubSeq(x, 3, n - 2) \o <<x[n], x[n], x[n], x[n]>>

splrep(x, y) ==
    LET n == Len(x)
        t == splrep_knots(x)
        greville(i) == FDiv(FAdd(FAdd(t[i + 1], t[i + 2]), t[i + 3]), R(3))
        affine(u) == FAdd(y[1], FMul(FSub(y[n], y[1]), FDiv(FSub(u, x[1]), FSub(x[n], x[1]))))
    IN  [t |-> t, c |-> [i \in 1..n |-> affine(greville(i))], k |-> 3]

\* _init_spline_objs: spl_x and spl_y; the derivative tables are splder of these
_init_spline_objs(XY, arclens) ==
    [spl_x |-> splrep(arclens, [j \in 1..Len(XY) |-> XY[j][1]]),
     spl_y |-> splrep(arclens, [j \in 1..Len(XY) |-> XY[j][2]])]

\* ------------------------------------------------------------ cubic.py
\* interpolating_path2d fits scipy's interpolating cubic splines x(s), y(s) through
\* the waypoints at the breakpoints idx2arclen.  For waypoints that advance along
\* one straight line the data are an affine function of the chord length, which the
\* interpolating spline reproduces exactly, also outside the domain: on such
\* waypoints (the only ones the model constructs this class from) splev is
cubic_get_pos(XY, arclens, t_eval) ==
    LET n == Len(XY)
    IN  VAdd(XY[1], VScale(VSub(XY[n], XY[1]),
                           FDiv(FSub(t_eval, arclens[1]), FSub(arclens[n], arclens[1]))))

cubic_get_tang(XY, arclens, t_eval) ==
    LET n == Len(XY)
    IN  VDivS(VSub(XY[n], XY[1]), FSub(arclens[n], arclens[1]))

cubic_get_utang(XY, arclens, t_eval) ==
    LET tang_vecs == cubic_get_tang(XY, arclens, t_eval)
    IN  VDivS(tang_vecs, VNorm(tang_vecs))

\* the clipped value is assigned to a local that is never read
cubic_get_pos_utang(XY, arclens, t_query, clip) ==
    <<cubic_get_pos(XY, arclens, t_query), cubic_get_utang(XY, arclens, t_query)>>

\* ------------------------------------------------------------ base.py
\* planar_curve_deg1 leaves get_pos and get_tang abstract.  The model's concrete
\* subclass is the straight segment through two waypoints over the parameter
\* interval [idx2arclen[0], idx2arclen[1]]; its parametric speed is the chord
\* length divided by the interval length and need not be 1.
deg1_get_pos(XY, arclens, s_test) ==
    VAdd(XY[1], VScale(VSub(XY[2], XY[1]),
                       FDiv(FSub(s_test, arclens[1]), FSub(arclens[2], arclens[1]))))

deg1_get_tang(XY, arclens, s_test) == VDivS(VSub(XY[2], XY[1]), FSub(arclens[2], arclens[1]))

get_utang(XY, arclens, s_test, shortcut) ==
    LET tangents == deg1_get_tang(XY, arclens, s_test)
    IN  IF shortcut THEN tangents ELSE VDivS(tangents, VNorm(tangents))

base_get_pos_utang(XY, arclens, s_test, shortcut) ==
    <<deg1_get_pos(XY, arclens, s_test), get_utang(XY, arclens, s_test, shortcut)>>

\* ------------------------------------------------------------ project
\* classes whose project is polyline.project (cubic.py inherits it)
PolylineClasses == {"polyline", "interpolating_path2d"}

\* self._get_pos_utang(s_old, ...) as project calls it, by the class of self
eval_pos_utang(c, XY, arclens, s, skip_normalization) ==
    IF c = "polyline" THEN _get_pos_utang(XY, arclens, s, FALSE)
    ELSE IF c = "interpolating_path2d" THEN cubic_get_pos_utang(XY, arclens, s, FALSE)
    ELSE base_get_pos_utang(XY, arclens, s, skip_normalization)

\* mutant: the comparison of the convergence test inverted
is_converged_gt(s_new, s_old, soln_tolerance) == FLt(soln_tolerance, FAbs(FSub(s_new, s_old)))

\* mutant: the loop runs while i <= iter_max
loop_continues_le(converged, i, iter_max) == ~converged /\ i <= iter_max

\* mutant: rotation clockwise by 90 deg
final_unit_normal_vec_cw(curve_unit_tang_now) == <<curve_unit_tang_now[2], Neg(curve_unit_tang_now[1])>>

\* mutant: the last iterate is returned also when the loop did not converge
returned_arclength_last(c, converged, s_new) == s_new

\* mutant: a damped update law, s_new += s_increment / 2
update_law_half(s_new, s_increment) == FAdd(s_new, FDiv(s_increment, R(2)))

\* s_new += s_increment
update_law(s_new, s_increment) == FAdd(s_new, s_increment)

\* converged = np.abs(s_new - s_old) < soln_tolerance
is_converged(s_new, s_old, soln_tolerance) == FLt(FAbs(FSub(s_new, s_old)), soln_tolerance)

\* the loop condition: not converged and i < iter_max
loop_continues(converged, i, iter_max) == ~converged /\ i < iter_max

\* rotation CCW by 90 deg
final_unit_normal_vec(curve_unit_tang_now) == <<Neg(curve_unit_tang_now[2]), curve_unit_tang_now[1]>>

projected_distance(delta_XY, curve_unit_tang_now) ==
    Dot(delta_XY, final_unit_normal_vec(curve_unit_tang_now))

\* polyline.project: if not converged: s_new = np.nan; base.project returns s_new
returned_arclength(c, converged, s_new) ==
    IF c \in PolylineClasses /\ ~converged THEN NaN ELSE s_new

\* ------------------------------------------------------------ inputs
\* waypoints offered to the constructors and to add
Pool == {Vec(0, 0), Vec(1, 0), Vec(1, 1)}

\* the chord from a to b has a rational length
RationalChord(a, b) == LET d == VSub(b, a) IN IsSquare(Dot(d, d)[1])
RationalChords(w) == \A j \in 1..(Len(w) - 1) : RationalChord(w[j], w[j + 1])

WayptSeqs(lo, hi) ==
    {w \in UNION {[1..n -> Pool] : n \in lo..hi} : RationalChords(w)}

\* waypoint arrays passed to polyline(...), and batches passed to add
InitWayptSeqs == WayptSeqs(1, MaxWaypts)
\* arrays that are not N x 2: of rank 1, of 3 columns, of 1 column
MalformedArrays ==
    { ndarray(<<2>>, <<R(0), R(1)>>),
      ndarray(<<4>>, <<R(0), R(0), R(1), R(0)>>),
      ndarray(<<2, 3>>, <<R(0), R(0), R(0), R(1), R(0), R(0)>>),
      ndarray(<<3, 1>>, <<R(0), R(1), R(2)>>) }
\* the arrays polyline.__init__ is called with
InitArrays == {array2d(w) : w \in InitWayptSeqs} \cup MalformedArrays
AddBatches == WayptSeqs(1, 2)
\* the two waypoints, one unit apart, of the straight base-class curve
Deg1WayptSeqs == {w \in WayptSeqs(2, 2) : VNorm(VSub(w[2], w[1])) = R(1)}

\* waypoints advancing along one straight line, for the spline curve
CubicWayptSeqs ==
    { <<Vec(0, 0), Vec(1, 0), Vec(2, 0), Vec(3, 0)>>,
      <<Vec(0, 0), Vec(3, 4), Vec(6, 8), Vec(9, 12)>> }

\* parameter intervals [0, T] of the straight base-class curve: speeds 2, 1, 1/2
Deg1Intervals == {Q(1, 2), R(1), R(2)}

ArcLens == {R(-1), R(0), Q(1, 2), R(1), Q(3, 2), R(3), R(7)}
QueryPts == {<<Q(1, 2), Q(1, 2)>>, Vec(2, 1), Vec(1, -1)}
Guesses == {Q(1, 2), R(3)}
DefaultTolerance == Q(1, 1000)
Tolerances == {DefaultTolerance, R(1)}

\* the four calls of the self-test of search_lhs_bkpt.py
SelfTests ==
    { [bkpts |-> <<Q(23, 10), Q(21, 5), Q(52, 5)>>, query |-> Q(11, 2)],
      [bkpts |-> <<Q(23, 10), Q(71, 5), Q(552, 5), Q(1711, 5)>>, query |-> Q(11, 2)],
      [bkpts |-> <<Q(23, 10), Q(71, 5), Q(552, 5), Q(1711, 5)>>, query |-> Q(3, 2)],
      [bkpts |-> <<Q(23, 10), Q(71, 5), Q(552, 5), Q(1711, 5)>>, query |-> Q(701, 2)] }

NoFrame == <<>>
\* seg before a spline_2d_onepiece is constructed
NoSegment == [coeff |-> <<>>, t0 |-> NaN, T |-> NaN, oneOverT |-> NaN]
\* pose, sel, ctr and sim before their objects are constructed
NoPose == [x |-> NaN, y |-> NaN, theta |-> NaN]
NoSelector == [progress |-> NaN, progress_change_ub |-> NaN]
NoFollower == [s_last |-> NaN, l |-> NaN, u_max |-> NaN, k |-> NaN, f_update |-> NaN, v_enable |-> NaN]
NoSimulator == [step_sz |-> NaN, num_steps |-> -1, X |-> <<>>, U |-> <<>>,
                plant |-> [l |-> NaN, k_steering |-> NaN, k_vx |-> NaN], step_ptr |-> -1]
\* ret while a call is running
NoReturn == [op |-> "running", args |-> <<>>, val |-> <<>>, raised |-> "none"]
Returned(op, args, val) == [op |-> op, args |-> args, val |-> val, raised |-> "none"]
Raised(op, args, exc) == [op |-> op, args |-> args, val |-> <<>>, raised |-> exc]

\* ------------------------------------------------------------ actions
Init ==
    /\ cls = "none"
    /\ XY_waypoints = <<>>
    /\ idx2arclen = <<>>
    /\ pc = "idle"
    /\ fr = NoFrame
    /\ ret = Returned("import", <<>>, <<>>)
    /\ spline = NoSpline
    /\ XY_base = "none"
    /\ caller_XY = NoArray
    /\ seg = NoSegment
    /\ file = <<>>
    /\ pose = NoPose
    /\ sel = NoSelector
    /\ ctr = NoFollower
    /\ sim = NoSimulator

\* polyline.__init__: the asserts on the shape, then the copy and the distance cache
polyline_init(XY) ==
    /\ cls = "none"
    /\ pc = "idle"
    /\ IF init_asserts(XY)
       THEN /\ cls' = "polyline"
            /\ XY_waypoints' = rows(XY)
            /\ XY_base' = np_copy("caller")
            /\ idx2arclen' = <<R(0)>> \o calc_cum_distance(rows(XY))
            /\ ret' = Returned("__init__", XY, <<>>)
       ELSE /\ ret' = Raised("__init__", XY, "AssertionError")
            /\ UNCHANGED <<cls, XY_waypoints, XY_base, idx2arclen>>
    /\ UNCHANGED <<pc, fr, spline, other_objs>>

\* interpolating_path2d.__init__: super().__init__, then the spline fit
interpolating_path2d_init(XY) ==
    /\ cls = "none"
    /\ pc = "idle"
    /\ cls' = "interpolating_path2d"
    /\ XY_waypoints' = XY
    /\ XY_base' = np_copy("caller")
    /\ idx2arclen' = <<R(0)>> \o calc_cum_distance(XY)
    /\ spline' = _init_spline_objs(XY, <<R(0)>> \o calc_cum_distance(XY))
    /\ ret' = Returned("__init__", XY, <<>>)
    /\ UNCHANGED <<pc, fr, caller_XY, other_objs>>

\* construction of the straight planar_curve_deg1 subclass over [0, T]
deg1_init(XY, T) ==
    /\ cls = "none"
    /\ pc = "idle"
    /\ cls' = "planar_curve_deg1"
    /\ XY_waypoints' = XY
    /\ idx2arclen' = <<R(0), T>>
    /\ ret' = Returned("__init__", XY, <<>>)
    /\ UNCHANGED <<pc, fr>>
    /\ UNCHANGED <<spline, XY_base, caller_XY, other_objs>>

\* polyline.add called on any curve that inherits it
add_inherited(XY_in) ==
    /\ cls \in PolylineClasses
    /\ pc = "idle"
    /\ cls = "polyline" => Len(XY_waypoints) + Len(XY_in) <= MaxWaypts
    /\ RationalChord(XY_waypoints[Len(XY_waypoints)], XY_in[1])
    /\ LET XY_in_plus_last == <<XY_waypoints[Len(XY_waypoints)]>> \o XY_in
       IN  /\ idx2arclen' = AppendShifted(idx2arclen, get_tot_dist(idx2arclen),
                                          calc_cum_distance(XY_in_plus_last))
           /\ XY_waypoints' = XY_waypoints \o XY_in
           /\ XY_base' = np_vstack(XY_base, "caller")
           /\ ret' = Returned("add", XY_in, <<>>)
    /\ UNCHANGED <<cls, pc, fr, spline, other_objs>>

\* polyline.add; interpolating_path2d.add raises
add(XY_in) ==
    /\ cls \in PolylineClasses
    /\ pc = "idle"
    /\ IF cls = "polyline"
       THEN /\ Len(XY_waypoints) + Len(XY_in) <= MaxWaypts
            /\ RationalChord(XY_waypoints[Len(XY_waypoints)], XY_in[1])
            /\ LET XY_in_plus_last == <<XY_waypoints[Len(XY_waypoints)]>> \o XY_in
               IN  /\ idx2arclen' = AppendShifted(idx2arclen, get_tot_dist(idx2arclen),
                                                  calc_cum_distance(XY_in_plus_last))
                   /\ XY_waypoints' = XY_waypoints \o XY_in
                   /\ XY_base' = np_vstack(XY_base, "caller")
                   /\ ret' = Returned("add", XY_in, <<>>)
       ELSE /\ ret' = Raised("add", XY_in, "NotImplementedError")
            /\ UNCHANGED <<XY_waypoints, XY_base, idx2arclen>>
    /\ UNCHANGED <<cls, pc, fr, spline, other_objs>>

\* the caller writes the 2-vector xy into row j of the array it holds
caller_write(j, xy) ==
    /\ pc = "idle"
    /\ ndim(caller_XY) = 2 /\ caller_XY.shape[2] = 2
    /\ j \in 1..caller_XY.shape[1]
    /\ caller_XY' = [caller_XY EXCEPT !.data[2 * j - 1] = xy[1], !.data[2 * j] = xy[2]]
    /\ XY_waypoints' = IF XY_base = "caller" THEN rows(caller_XY') ELSE XY_waypoints
    /\ UNCHANGED <<cls, idx2arclen, pc, fr, ret, spline, XY_base, other_objs>>

\* a call of linear_search on the object's breakpoint table
search_left_idx(query_arclen) ==
    /\ cls = "polyline"
    /\ pc = "idle"
    /\ ret' = Returned("linear_search", [bkpts |-> idx2arclen, query |-> query_arclen],
                       linear_search(idx2arclen, query_arclen))
    /\ UNCHANGED <<cls, XY_waypoints, idx2arclen, pc, fr>>
    /\ UNCHANGED <<spline, XY_base, caller_XY, other_objs>>

\* the module's self-test, run before any curve exists
self_test(t) ==
    /\ cls = "none"
    /\ pc = "idle"
    /\ ret' = Returned("linear_search", t, linear_search(t.bkpts, t.query))
    /\ UNCHANGED <<cls, XY_waypoints, idx2arclen, pc, fr>>
    /\ UNCHANGED <<spline, XY_base, caller_XY, other_objs>>

\* polyline.get_pos(arclength) and polyline.get_pos(arclength, clip=...);
\* clip_given is FALSE for a call that leaves the parameter at its default, True
call_get_pos(arclength, clip_given, clip) ==
    /\ cls = "polyline"
    /\ pc = "idle"
    /\ clip_given \/ clip
    /\ ret' = Returned("get_pos", [arclength |-> arclength, clip_given |-> clip_given, clip |-> clip],
                       get_pos(XY_waypoints, idx2arclen, arclength, clip))
    /\ UNCHANGED <<cls, XY_waypoints, idx2arclen, pc, fr>>
    /\ UNCHANGED <<spline, XY_base, caller_XY, other_objs>>

\* entry of project: the assert on iter_max and the initial locals.  The code's
\* initial s_old = -1e16 is overwritten before it is read; the frame holds NaN
\* for every local that is not yet bound to a value that is read.
project_enter(XY_query, arclength_init_guess, iter_max, soln_tolerance, how) ==
    /\ cls # "none"
    /\ pc = "idle"
    /\ IF iter_max > 0
       THEN /\ pc' = "project"
            /\ fr' = [XY_query |-> XY_query,
                      arclength_init_guess |-> arclength_init_guess,
                      iter_max |-> iter_max,
                      soln_tolerance |-> soln_tolerance,
                      skip_normalization |-> TRUE,
                      how |-> how,
                      s_old |-> NaN,
                      s_new |-> arclength_init_guess,
                      i |-> 0,
                      converged |-> FALSE,
                      curve_pos_now |-> <<NaN, NaN>>,
                      curve_unit_tang_now |-> <<NaN, NaN>>,
                      delta_XY |-> <<NaN, NaN>>,
                      increments |-> <<>>]
            /\ ret' = NoReturn
       ELSE /\ ret' = Raised("project", [iter_max |-> iter_max], "AssertionError")
            /\ UNCHANGED <<pc, fr>>
    /\ UNCHANGED <<cls, XY_waypoints, idx2arclen>>
    /\ UNCHANGED <<spline, XY_base, caller_XY, other_objs>>

\* project(XY_query, guess): iter_max and soln_tolerance at their defaults
project_default(XY_query, arclength_init_guess) ==
    project_enter(XY_query, arclength_init_guess, DefaultIterMax, DefaultTolerance, "default")

\* project(XY_query, guess, iter_max, soln_tolerance)
project_explicit(XY_query, arclength_init_guess, iter_max, soln_tolerance) ==
    project_enter(XY_query, arclength_init_guess, iter_max, soln_tolerance, "explicit")

\* project(get_pos(s0), s0) on a polyline
project_self(s0) ==
    /\ cls = "polyline"
    /\ project_enter(get_pos(XY_waypoints, idx2arclen, s0, TRUE), s0,
                     DefaultIterMax, DefaultTolerance, "self")

\* one pass through the body of the while loop
project_iter ==
    /\ pc = "project"
    /\ loop_continues(fr.converged, fr.i, fr.iter_max)
    /\ LET s_old == fr.s_new
           pu == eval_pos_utang(cls, XY_waypoints, idx2arclen, s_old, fr.skip_normalization)
           delta_XY == VSub(fr.XY_query, pu[1])
           s_increment == Dot(delta_XY, pu[2])
           s_new == update_law(fr.s_new, s_increment)
       IN  fr' = [fr EXCEPT !.s_old = s_old,
                            !.curve_pos_now = pu[1],
                            !.curve_unit_tang_now = pu[2],
                            !.delta_XY = delta_XY,
                            !.s_new = s_new,
                            !.converged = is_converged(s_new, s_old, fr.soln_tolerance),
                            !.i = fr.i + 1,
                            !.increments = Append(fr.increments, s_increment)]
    /\ UNCHANGED <<cls, XY_waypoints, idx2arclen, pc, ret>>
    /\ UNCHANGED <<spline, XY_base, caller_XY, other_objs>>

\* the code after the loop: the projected distance and the returned pair
project_return ==
    /\ pc = "project"
    /\ ~loop_continues(fr.converged, fr.i, fr.iter_max)
    /\ ret' = Returned("project", fr,
                       <<returned_arclength(cls, fr.converged, fr.s_new),
                         projected_distance(fr.delta_XY, fr.curve_unit_tang_now)>>)
    /\ pc' = "idle"
    /\ fr' = NoFrame
    /\ UNCHANGED <<cls, XY_waypoints, idx2arclen>>
    /\ UNCHANGED <<spline, XY_base, caller_XY, other_objs>>

Next ==
    \/ \E XY \in InitArrays : polyline_init(XY) /\ UNCHANGED caller_XY
    \/ \E XY \in CubicWayptSeqs : interpolating_path2d_init(XY)
    \/ \E XY \in Deg1WayptSeqs, T \in Deg1Intervals : deg1_init(XY, T)
    \/ \E XY_in \in AddBatches : add(XY_in) /\ UNCHANGED caller_XY
    \/ \E q \in ArcLens : search_left_idx(q)
    \/ \E t \in SelfTests : self_test(t)
    \/ \E s \in ArcLens, g \in BOOLEAN, c \in BOOLEAN : call_get_pos(s, g, c)
    \/ \E q \in QueryPts, s \in Guesses : project_default(q, s)
    \/ \E q \in QueryPts, s \in Guesses, n \in 0..MaxIter, tol \in Tolerances :
          project_explicit(q, s, n, tol)
    \/ \E s0 \in ArcLens : project_self(s0)
    \/ project_iter
    \/ project_return

Spec == Init /\ [][Next]_vars

\* ------------------------------------------------------------ properties
StrictlyIncreasing(b) == \A j \in 1..(Len(b) - 1) : FLt(b[j], b[j + 1])
Within(x, y, tol) == FLt(FAbs(FSub(x, y)), tol)
ProjectReturned == ret.op = "project" /\ ret.raised = "none"
SmallIncrement(f, k) == FLt(FAbs(f.increments[k]), f.soln_tolerance)

\* C1: on a strictly increasing breakpoint sequence linear_search returns -1 exactly
\* when the query is below the first breakpoint, -2 exactly when it is at or above
\* the last one, and otherwise the greatest index i with breakpoints[i] <= query.
C1_LinearSearch ==
    (ret.op = "linear_search" /\ StrictlyIncreasing(ret.args.bkpts)) =>
        LET b == ret.args.bkpts
            q == ret.args.query
            r == ret.val
        IN  /\ (r = -1) <=> FLt(q, b[1])
            /\ (r = -2) <=> FLe(b[Len(b)], q)
            /\ r \notin {-1, -2} =>
                  /\ r \in 0..(Len(b) - 1)
                  /\ FLe(b[r + 1], q)
                  /\ \A j \in 0..(Len(b) - 1) : FLe(b[j + 1], q) => j <= r

\* a search whose query equals an inner breakpoint of a table of three or more
C1_Witness ==
    /\ ret.op = "linear_search"
    /\ StrictlyIncreasing(ret.args.bkpts)
    /\ Len(ret.args.bkpts) >= 3
    /\ ret.val = 1
    /\ ret.args.query = ret.args.bkpts[2]

\* the scenario of C2: the corner polyline, query (0.5, 0.5), guess 0.5, defaults
C2_Scenario ==
    /\ ProjectReturned
    /\ cls = "polyline"
    /\ XY_waypoints = <<Vec(0, 0), Vec(1, 0), Vec(1, 1)>>
    /\ ret.args.XY_query = <<Q(1, 2), Q(1, 2)>>
    /\ ret.args.arclength_init_guess = Q(1, 2)
    /\ ret.args.how = "default"

\* C2 as claimed: the scenario converges to arc-length 1.0 (the corner) with signed
\* offset +0.5, within the tolerance.
C2_ConvergesToCorner ==
    C2_Scenario =>
        /\ Within(ret.val[1], R(1), DefaultTolerance)
        /\ Within(ret.val[2], Q(1, 2), DefaultTolerance)

\* C2 as amended: the scenario converges at its first iteration to arc-length 0.5,
\* the initial guess (the foot (0.5, 0) on the first segment), with offset +0.5.
C2_ConvergesAtGuess ==
    C2_Scenario =>
        /\ ret.args.converged
        /\ ret.args.i = 1
        /\ ret.val = <<Q(1, 2), Q(1, 2)>>

C2_Witness == C2_Scenario /\ Len(ret.args.increments) = 1

\* C3: an add on a polyline whose idx2arclen is strictly increasing leaves it
\* strictly increasing (or fails without completing).
C3_AddKeepsStrictIncrease ==
    [][(cls = "polyline" /\ StrictlyIncreasing(idx2arclen)) => StrictlyIncreasing(idx2arclen')]_vars

\* C4: no constructed curve holds two equal consecutive waypoints: construction
\* from such a sequence is rejected.
C4_NoZeroLengthSegment ==
    (ret.op = "__init__" /\ ret.raised = "none") =>
        \A j \in 1..(Len(XY_waypoints) - 1) : XY_waypoints[j] # XY_waypoints[j + 1]

\* the point of the affine map of segment k (1-based) at parameter s
SegmentMap(k, s) ==
    VAdd(XY_waypoints[k],
         VScale(VSub(XY_waypoints[k + 1], XY_waypoints[k]),
                FDiv(FSub(s, idx2arclen[k]), FSub(idx2arclen[k + 1], idx2arclen[k]))))

\* C5: get_pos(s) called without a clip argument, with s outside [s_min, s_max],
\* returns the point of the extended first (last) segment, not the end waypoint.
C5_DefaultExtrapolates ==
    (ret.op = "get_pos" /\ ~ret.args.clip_given /\ StrictlyIncreasing(idx2arclen)) =>
        LET s == ret.args.arclength
            n == Len(idx2arclen)
        IN  /\ FLt(s, idx2arclen[1]) => ret.val = SegmentMap(1, s)
            /\ FLt(idx2arclen[n], s) => ret.val = SegmentMap(n - 1, s)

\* C6: project(get_pos(s0), s0) with s0 strictly inside the domain converges and
\* returns s0 (not NaN) and offset 0, within the tolerance.
C6_SelfProjection ==
    (ProjectReturned /\ ret.args.how = "self"
       /\ FLt(idx2arclen[1], ret.args.arclength_init_guess)
       /\ FLt(ret.args.arclength_init_guess, idx2arclen[Len(idx2arclen)])) =>
        /\ ret.args.converged
        /\ ~IsNaN(ret.val[1])
        /\ Within(ret.val[1], ret.args.arclength_init_guess, ret.args.soln_tolerance)
        /\ Within(ret.val[2], R(0), ret.args.soln_tolerance)

\* a self-projection from inside the second segment of a polyline
C6_Witness ==
    /\ ProjectReturned
    /\ ret.args.how = "self"
    /\ Len(idx2arclen) >= 3
    /\ FLt(idx2arclen[2], ret.args.arclength_init_guess)
    /\ FLt(ret.args.arclength_init_guess, idx2arclen[Len(idx2arclen)])

\* C7: polyline.project returns NaN as the arc-length exactly when all iter_max
\* iterations ran and the last increment was not below the tolerance; the offset is
\* then still the one of the last evaluated iterate and the call does not raise;
\* when some increment was below the tolerance the arc-length is the finite final
\* iterate.
C7_NaNSentinel ==
    (ret.op = "project" /\ cls = "polyline" /\ ret.args.iter_max > 0) =>
        LET f == ret.args
            last == Len(f.increments)
            p == _get_pos(XY_waypoints, idx2arclen, f.s_old, FALSE)
            t == _get_utang(XY_waypoints, idx2arclen, f.s_old, FALSE)
        IN  /\ ret.raised = "none"
            /\ IsNaN(ret.val[1]) <=> (last = f.iter_max /\ ~SmallIncrement(f, last))
            /\ IsNaN(ret.val[1]) => ret.val[2] = Dot(VSub(f.XY_query, p), <<Neg(t[2]), t[1]>>)
            /\ (\E k \in 1..last : SmallIncrement(f, k)) =>
                  IsFinite(ret.val[1]) /\ ret.val[1] = f.s_new

\* a projection that ran out of iterations: NaN arc-length, finite offset
C7_Witness ==
    /\ ProjectReturned
    /\ cls = "polyline"
    /\ IsNaN(ret.val[1])
    /\ IsFinite(ret.val[2])
    /\ ret.args.i = ret.args.iter_max

\* C8: project of the base class and of the cubic spline curve, when iter_max
\* iterations pass without convergence, returns the finite last iterate.
C8_LastIterateReturned ==
    (ProjectReturned /\ cls \in {"planar_curve_deg1", "interpolating_path2d"}
       /\ ~ret.args.converged) =>
        /\ IsFinite(ret.val[1])
        /\ ret.val[1] = ret.args.s_new

\* what C9 says of a state: the evaluations so far of a running call, and the
\* evaluations of a returned call
C9_Counts ==
    /\ pc = "project" =>
          /\ Len(fr.increments) = fr.i
          /\ fr.i <= fr.iter_max
          /\ \A k \in 1..(fr.i - 1) : ~SmallIncrement(fr, k)
    /\ ProjectReturned =>
          LET f == ret.args
              n == Len(f.increments)
          IN  /\ n >= 1
              /\ n <= f.iter_max
              /\ \A k \in 1..(n - 1) : ~SmallIncrement(f, k)
              /\ n < f.iter_max => SmallIncrement(f, n)

\* C9: project evaluates the curve at least once and at most iter_max times and
\* stops right after the first iteration whose increment is below the tolerance;
\* every step of a running call that does not return is one more evaluation.
C9_BoundedIteration ==
    /\ []C9_Counts
    /\ [][(pc = "project" /\ pc' = "project") =>
            (fr'.i = fr.i + 1 /\ Len(fr'.increments) = Len(fr.increments) + 1)]_vars

\* a default call that stopped after its second evaluation
C9_Witness ==
    /\ ProjectReturned
    /\ ret.args.iter_max = DefaultIterMax
    /\ Len(ret.args.increments) = 2
    /\ ~SmallIncrement(ret.args, 1)

\* the position and the unit tangent of the curve at parameter s
TruePosition(s) ==
    IF cls = "polyline" THEN _get_pos(XY_waypoints, idx2arclen, s, FALSE)
    ELSE IF cls = "interpolating_path2d" THEN cubic_get_pos(XY_waypoints, idx2arclen, s)
    ELSE deg1_get_pos(XY_waypoints, idx2arclen, s)

TrueUnitTangent(s) ==
    IF cls = "polyline" THEN _get_utang(XY_waypoints, idx2arclen, s, FALSE)
    ELSE IF cls = "interpolating_path2d" THEN cubic_get_utang(XY_waypoints, idx2arclen, s)
    ELSE get_utang(XY_waypoints, idx2arclen, s, FALSE)

\* C10: the returned offset is dot(query - p, n), p and t the position and the unit
\* tangent at the last evaluated iterate, n = (-t_y, t_x).
C10_OffsetAlongUnitNormal ==
    ProjectReturned =>
        LET f == ret.args
            p == TruePosition(f.s_old)
            t == TrueUnitTangent(f.s_old)
        IN  ret.val[2] = Dot(VSub(f.XY_query, p), <<Neg(t[2]), t[1]>>)

\* C11: add on a cubic spline curve fails with NotImplementedError for every
\* argument and leaves XY_waypoints, idx2arclen and the spline tables as they were.
C11_AddOnSplineRaises ==
    [][(cls = "interpolating_path2d" /\ ret'.op = "add") =>
          /\ ret'.raised = "NotImplementedError"
          /\ UNCHANGED <<XY_waypoints, idx2arclen, spline>>]_vars

C11_Witness ==
    /\ cls = "interpolating_path2d"
    /\ ret.op = "add"
    /\ ret.raised = "NotImplementedError"
    /\ Len(ret.args) = 2
    /\ spline = _init_spline_objs(XY_waypoints, idx2arclen)

\* ------------------------------------------------------------ the caller's arrays
\* A caller that keeps the arrays it passes to polyline.__init__ and add, and
\* writes to them afterwards.
CallerValues == {Vec(7, 7)}

NextOwn ==
    \/ \E XY \in InitArrays : polyline_init(XY) /\ caller_XY' = XY
    \/ \E XY_in \in AddBatches : add(XY_in) /\ caller_XY' = array2d(XY_in)
    \/ \E j \in 1..MaxWaypts, xy \in CallerValues : caller_write(j, xy)

SpecOwn == Init /\ [][NextOwn]_vars

\* arc lengths the curve is queried at before and after a write of the caller
OwnQueries == {Q(1, 2), Q(3, 2)}

\* a step in which the caller writes to the array it holds
CallerWrites ==
    /\ cls = "polyline"
    /\ cls' = cls
    /\ Len(XY_waypoints') = Len(XY_waypoints)
    /\ caller_XY' # caller_XY

\* C12: a write by the caller to an array it passed to __init__ or add changes
\* neither XY_waypoints nor idx2arclen nor the position or unit tangent at any
\* arc length.
C12_IndependentOfCaller ==
    [][CallerWrites =>
          /\ UNCHANGED <<XY_waypoints, idx2arclen>>
          /\ \A s \in OwnQueries, c \in BOOLEAN :
                /\ _get_pos(XY_waypoints', idx2arclen', s, c) = _get_pos(XY_waypoints, idx2arclen, s, c)
                /\ _get_utang(XY_waypoints', idx2arclen', s, c) = _get_utang(XY_waypoints, idx2arclen, s, c)]_vars

\* the caller has changed the array the curve was constructed from
C12_Witness ==
    /\ cls = "polyline"
    /\ ret.op = "__init__"
    /\ XY_waypoints = rows(ret.args)
    /\ caller_XY.shape = ret.args.shape
    /\ caller_XY # ret.args

\* a step that is a completed polyline.add
AddStep ==
    /\ cls = "polyline"
    /\ ret'.op = "add"
    /\ ret'.raised = "none"
    /\ <<XY_waypoints, idx2arclen, ret>>' # <<XY_waypoints, idx2arclen, ret>>

C13_Aligned == cls = "polyline" => Len(idx2arclen) = Len(XY_waypoints)

\* C13: add of k >= 1 waypoints appends exactly k waypoints and k entries of
\* idx2arclen, each new entry the entry before it plus the distance from the
\* waypoint before; what was stored before is unchanged, and idx2arclen is
\* always as long as XY_waypoints.
C13_AddAppends ==
    /\ []C13_Aligned
    /\ [][AddStep =>
            LET k == Len(ret'.args)
                n == Len(XY_waypoints)
            IN  /\ k >= 1
                /\ Len(XY_waypoints') = n + k
                /\ Len(idx2arclen') = Len(idx2arclen) + k
                /\ SubSeq(XY_waypoints', 1, n) = XY_waypoints
                /\ SubSeq(XY_waypoints', n + 1, n + k) = ret'.args
                /\ SubSeq(idx2arclen', 1, Len(idx2arclen)) = idx2arclen
                /\ \A j \in (n + 1)..(n + k) :
                      idx2arclen'[j] =
                         FAdd(idx2arclen'[j - 1],
                              VNorm(VSub(XY_waypoints'[j], XY_waypoints'[j - 1])))]_vars

\* two waypoints at distinct places have been added in one call
C13_Witness ==
    /\ cls = "polyline"
    /\ ret.op = "add"
    /\ ret.raised = "none"
    /\ Len(ret.args) = 2
    /\ ret.args[1] # ret.args[2]
    /\ ret.args[1] # XY_waypoints[Len(XY_waypoints) - 2]

\* C14: polyline.__init__ on fewer than 2 waypoints, or on an array that is not
\* N x 2, raises and leaves no curve object.
C14_MalformedRejected ==
    (ret.op = "__init__" /\ cls \in {"none", "polyline"}) =>
        LET a == ret.args
            NotNx2 == ~(Len(a.shape) = 2 /\ a.shape[2] = 2)
        IN  (NotNx2 \/ a.shape[1] < 2) =>
               /\ ret.raised # "none"
               /\ cls = "none"
               /\ XY_waypoints = <<>>
               /\ idx2arclen = <<>>

\* a single waypoint, given as a 1 x 2 array, has been rejected
C14_Witness ==
    /\ ret.op = "__init__"
    /\ ret.raised = "AssertionError"
    /\ ret.args.shape = <<1, 2>>
    /\ cls = "none"

\* ------------------------------------------------------------ cubic_onepiece.py
\* sign of a number: 1, -1, or 0 for zero and NaN
FSign(x) == Sign(x[1])
\* whether np.linalg.norm of the 2-vector is rational
RationalNorm(v) ==
    LET d == Dot(v, v) IN IsFinite(d) /\ IsSquare(d[1]) /\ IsSquare(d[2])

\* np.zeros((4,2))
ZeroCoeff == <<Vec(0, 0), Vec(0, 0), Vec(0, 0), Vec(0, 0)>>

normalize_parameter(sg, t_eval) == FMul(FSub(t_eval, sg.t0), sg.oneOverT)

\* fit_pos_vel_ends with v0 and v1 taken as velocities of the normalized domain
fit_pos_vel_ends_unscaled(T, p0, v0, p1, v1) ==
    LET vecA == VSub(VSub(p1, p0), v0)
        vecB == VSub(v1, v0)
    IN  <<p0, v0,
          VSub(VScale(vecA, R(3)), vecB),
          VAdd(VScale(vecA, R(-2)), vecB)>>

\* the coefficient table fit_pos_vel_ends writes into self.coeff
fit_pos_vel_ends(T, p0, v0, p1, v1) ==
    LET v0_np == VScale(v0, T)
        v1_np == VScale(v1, T)
        vecA == VSub(VSub(p1, p0), v0_np)
        vecB == VSub(v1_np, v0_np)
    IN  <<p0, v0_np,
          VSub(VScale(vecA, R(3)), vecB),
          VAdd(VScale(vecA, R(-2)), vecB)>>

\* basis_eval @ self.coeff with the basis 1, t, t^2, t^3
get_pos_wrt_natural(sg, t) ==
    VAdd(VAdd(VAdd(VScale(sg.coeff[1], R(1)),
                   VScale(sg.coeff[2], t)),
              VScale(sg.coeff[3], FMul(t, t))),
         VScale(sg.coeff[4], FMul(FMul(t, t), t)))

\* basis_eval @ self.coeff[1:,:] with the basis 1, 2t, 3t^2
get_tang_wrt_natural(sg, t) ==
    VAdd(VAdd(VScale(sg.coeff[2], R(1)),
              VScale(sg.coeff[3], FMul(R(2), t))),
         VScale(sg.coeff[4], FMul(R(3), FMul(t, t))))

\* basis_eval @ self.coeff[2:,:] with the basis 2, 6t
get_deri_tang_wrt_natural(sg, t) ==
    VAdd(VScale(sg.coeff[3], R(2)), VScale(sg.coeff[4], FMul(R(6), t)))

\* the numerator tx*ddy - ty*ddx divided by the cube of the norm of the tangent
signed_curvature(tangent_vecs, ddot_vecs) ==
    LET numerator == FSub(FMul(tangent_vecs[1], ddot_vecs[2]), FMul(tangent_vecs[2], ddot_vecs[1]))
        norm == VNorm(tangent_vecs)
    IN  FDiv(numerator, FMul(FMul(norm, norm), norm))

get_tang_curvature_wrt_natural(sg, t) ==
    LET tangent_vecs == get_tang_wrt_natural(sg, t)
        ddot_vecs == get_deri_tang_wrt_natural(sg, t)
    IN  <<tangent_vecs, signed_curvature(tangent_vecs, ddot_vecs)>>

seg_get_pos(sg, t_eval) == get_pos_wrt_natural(sg, normalize_parameter(sg, t_eval))

seg_get_tang(sg, t_eval) ==
    VScale(get_tang_wrt_natural(sg, normalize_parameter(sg, t_eval)), sg.oneOverT)

seg_get_deri_tang(sg, t_eval) ==
    VScale(get_deri_tang_wrt_natural(sg, normalize_parameter(sg, t_eval)),
           FMul(sg.oneOverT, sg.oneOverT))

seg_get_tang_curvature(sg, t_eval) ==
    LET tc == get_tang_curvature_wrt_natural(sg, normalize_parameter(sg, t_eval))
    IN  <<VScale(tc[1], sg.oneOverT), tc[2]>>

\* cubic.py: the second derivative of the spline of waypoints on one straight
\* line, and get_tang_and_curv
cubic_get_deri_tang(XY, arclens, t_eval) == Vec(0, 0)

cubic_get_tang_and_curv(XY, arclens, t_eval) ==
    LET tangent_vecs == cubic_get_tang(XY, arclens, t_eval)
        ddot_vecs == cubic_get_deri_tang(XY, arclens, t_eval)
    IN  <<tangent_vecs, signed_curvature(tangent_vecs, ddot_vecs)>>

\* the domains [t0, t1] segments are constructed over, one of them reversed and
\* one empty
SegDomains == {<<R(0), R(1)>>, <<R(0), R(2)>>, <<R(1), R(0)>>, <<R(1), R(1)>>}
SegPool == {Vec(0, 0), Vec(1, 0), Vec(0, 1)}
SegVels == {Vec(1, 0), Vec(0, 1), Vec(-1, 1)}
SegTimes == {R(0), Q(1, 2), R(1), R(2)}
\* a coefficient table passed to the constructor: (t, t^2)
SegCoeffs == {<<Vec(0, 0), Vec(1, 0), Vec(0, 1), Vec(0, 0)>>}

\* spline_2d_onepiece.__init__(t0, t1) and (t0, t1, coeff); coeff_given is FALSE
\* when the parameter is left at its default, None.  With a coeff the assert
\* reads self.coeff, which no statement has set.
onepiece_init(t0, t1, coeff_given, coeff) ==
    /\ seg = NoSegment
    /\ pc = "idle"
    /\ coeff_given \/ coeff = ZeroCoeff
    /\ IF coeff_given
       THEN /\ ret' = Raised("spline_2d_onepiece", [t0 |-> t0, t1 |-> t1, coeff_given |-> coeff_given, coeff |-> coeff],
                             "AttributeError")
            /\ UNCHANGED seg
       ELSE IF FSub(t1, t0) = R(0)
       THEN /\ ret' = Raised("spline_2d_onepiece", [t0 |-> t0, t1 |-> t1, coeff_given |-> coeff_given, coeff |-> coeff],
                             "ZeroDivisionError")
            /\ UNCHANGED seg
       ELSE /\ seg' = [coeff |-> ZeroCoeff, t0 |-> t0, T |-> FSub(t1, t0),
                       oneOverT |-> FDiv(R(1), FSub(t1, t0))]
            /\ ret' = Returned("spline_2d_onepiece", [t0 |-> t0, t1 |-> t1, coeff_given |-> coeff_given, coeff |-> coeff], <<>>)
    /\ UNCHANGED <<cls, XY_waypoints, idx2arclen, pc, fr, spline, XY_base, caller_XY, file, robot_objs>>

onepiece_fit(p0, v0, p1, v1) ==
    /\ seg # NoSegment
    /\ pc = "idle"
    /\ seg' = [seg EXCEPT !.coeff = fit_pos_vel_ends(seg.T, p0, v0, p1, v1)]
    /\ ret' = Returned("fit_pos_vel_ends", [p0 |-> p0, v0 |-> v0, p1 |-> p1, v1 |-> v1], <<>>)
    /\ UNCHANGED <<cls, XY_waypoints, idx2arclen, pc, fr, spline, XY_base, caller_XY, file, robot_objs>>

onepiece_get_pos(t_eval) ==
    /\ seg # NoSegment
    /\ pc = "idle"
    /\ ret' = Returned("seg.get_pos", t_eval, seg_get_pos(seg, t_eval))
    /\ UNCHANGED <<cls, XY_waypoints, idx2arclen, pc, fr, spline, XY_base, caller_XY, other_objs>>

onepiece_get_tang(t_eval) ==
    /\ seg # NoSegment
    /\ pc = "idle"
    /\ ret' = Returned("seg.get_tang", t_eval, seg_get_tang(seg, t_eval))
    /\ UNCHANGED <<cls, XY_waypoints, idx2arclen, pc, fr, spline, XY_base, caller_XY, other_objs>>

onepiece_get_tang_curvature_wrt_natural(t_eval_normalized) ==
    /\ seg # NoSegment
    /\ pc = "idle"
    /\ RationalNorm(get_tang_wrt_natural(seg, t_eval_normalized))
    /\ ret' = Returned("seg.get_tang_curvature_wrt_natural", t_eval_normalized,
                       get_tang_curvature_wrt_natural(seg, t_eval_normalized))
    /\ UNCHANGED <<cls, XY_waypoints, idx2arclen, pc, fr, spline, XY_base, caller_XY, other_objs>>

onepiece_get_tang_curvature(t_eval) ==
    /\ seg # NoSegment
    /\ pc = "idle"
    /\ RationalNorm(get_tang_wrt_natural(seg, normalize_parameter(seg, t_eval)))
    /\ ret' = Returned("seg.get_tang_curvature", t_eval, seg_get_tang_curvature(seg, t_eval))
    /\ UNCHANGED <<cls, XY_waypoints, idx2arclen, pc, fr, spline, XY_base, caller_XY, other_objs>>

\* interpolating_path2d.get_tang_and_curv
call_get_tang_and_curv(t_eval) ==
    /\ cls = "interpolating_path2d"
    /\ pc = "idle"
    /\ ret' = Returned("get_tang_and_curv", t_eval,
                       cubic_get_tang_and_curv(XY_waypoints, idx2arclen, t_eval))
    /\ UNCHANGED <<cls, XY_waypoints, idx2arclen, pc, fr, spline, XY_base, caller_XY, other_objs>>

\* the curves that supply a curvature: a run constructs a one-piece cubic or a
\* spline curve
NextCurv ==
    \/ \E d \in SegDomains : cls = "none" /\ onepiece_init(d[1], d[2], FALSE, ZeroCoeff)
    \/ \E d \in SegDomains, c \in SegCoeffs : cls = "none" /\ onepiece_init(d[1], d[2], TRUE, c)
    \/ \E p0 \in SegPool, v0 \in SegVels, p1 \in SegPool, v1 \in SegVels : onepiece_fit(p0, v0, p1, v1)
    \/ \E t \in SegTimes : onepiece_get_pos(t)
    \/ \E t \in SegTimes : onepiece_get_tang(t)
    \/ \E t \in SegTimes : onepiece_get_tang_curvature_wrt_natural(t)
    \/ \E t \in SegTimes : onepiece_get_tang_curvature(t)
    \/ \E XY \in CubicWayptSeqs : seg = NoSegment /\ interpolating_path2d_init(XY)
    \/ \E t \in SegTimes : call_get_tang_and_curv(t)

SpecCurv == Init /\ [][NextCurv]_vars

\* C15: after fit_pos_vel_ends(p0, v0, p1, v1) on a segment over [t0, t1],
\* get_pos(t0) = p0, get_pos(t1) = p1, get_tang(t0) = v0 and get_tang(t1) = v1.
C15_FitMeetsEnds ==
    (ret.op = "fit_pos_vel_ends" /\ ret.raised = "none") =>
        LET t0 == seg.t0
            t1 == FAdd(seg.t0, seg.T)
        IN  /\ seg_get_pos(seg, t0) = ret.args.p0
            /\ seg_get_pos(seg, t1) = ret.args.p1
            /\ seg_get_tang(seg, t0) = ret.args.v0
            /\ seg_get_tang(seg, t1) = ret.args.v1

\* a fit over a domain of length other than 1 with distinct ends and velocities
C15_Witness ==
    /\ ret.op = "fit_pos_vel_ends"
    /\ seg.T = R(2)
    /\ ret.args.p0 # ret.args.p1
    /\ ret.args.v0 # ret.args.v1
    /\ ret.args.v0 # Vec(0, 0)

\* the tangent and the second derivative in the parameter of the call ret holds
C19_Derivatives ==
    IF ret.op = "seg.get_tang_curvature_wrt_natural"
    THEN <<get_tang_wrt_natural(seg, ret.args), get_deri_tang_wrt_natural(seg, ret.args)>>
    ELSE IF ret.op = "seg.get_tang_curvature"
    THEN <<seg_get_tang(seg, ret.args), seg_get_deri_tang(seg, ret.args)>>
    ELSE <<cubic_get_tang(XY_waypoints, idx2arclen, ret.args),
           cubic_get_deri_tang(XY_waypoints, idx2arclen, ret.args)>>

\* C19: wherever the tangent is not zero, the signed curvature a curve returns
\* has the sign of x'y'' - y'x'': positive for a left turn, negative for a right
\* turn, zero when the second derivative is parallel to the tangent.
C19_CurvatureSign ==
    (ret.op \in {"seg.get_tang_curvature_wrt_natural", "seg.get_tang_curvature", "get_tang_and_curv"}) =>
        LET tang == C19_Derivatives[1]
            ddot == C19_Derivatives[2]
            cross == FSub(FMul(tang[1], ddot[2]), FMul(tang[2], ddot[1]))
        IN  (VFinite(tang) /\ tang # Vec(0, 0)) => FSign(ret.val[2]) = FSign(cross)

\* C19 for the calls in the normalized parameter and on the spline curve
C19_NaturalCurvatureSign ==
    (ret.op \in {"seg.get_tang_curvature_wrt_natural", "get_tang_and_curv"}) =>
        LET tang == C19_Derivatives[1]
            ddot == C19_Derivatives[2]
            cross == FSub(FMul(tang[1], ddot[2]), FMul(tang[2], ddot[1]))
        IN  (VFinite(tang) /\ tang # Vec(0, 0)) => FSign(ret.val[2]) = FSign(cross)

\* C20: spline_2d_onepiece(t0, t1, coeff) with a 4 x 2 table and t1 # t0
\* constructs a segment that holds the table and evaluates with it.
C20_ExplicitCoeff ==
    (ret.op = "spline_2d_onepiece" /\ ret.args.coeff_given /\ ret.args.t1 # ret.args.t0) =>
        /\ ret.raised = "none"
        /\ seg # NoSegment
        /\ seg.coeff = ret.args.coeff
        /\ seg_get_pos(seg, ret.args.t0) = ret.args.coeff[1]

\* ------------------------------------------------------------ the waypoint file
\* The writer and the reader of the waypoint file, as the format section of the
\* specification describes them: a flat sequence of numbers, written as one
\* record (arc_length, x, y) per waypoint, row after row, and read back by a
\* reshape into 3 rows of N columns: the arc lengths, the x's, the y's.

\* the N x 3 table of the records (arc_length, x, y)
waypt_records(XY, arclens) ==
    ndarray(<<Len(XY), 3>>,
            [k \in 1..(3 * Len(XY)) |->
                LET i == (k + 2) \div 3
                    c == k - 3 * (i - 1)
                IN  IF c = 1 THEN arclens[i] ELSE XY[i][c - 1]])

\* ndarray.tofile: the elements in row-major order
tofile(a) == a.data

\* np.fromfile(...).reshape(3, -1)
fromfile_reshaped(buf) == ndarray(<<3, Len(buf) \div 3>>, buf)

\* the waypoints and the arc lengths polyline_from_bin reads from a buffer
waypts_read(buf) ==
    LET tmp == rows(fromfile_reshaped(buf))
    IN  [XY_waypoints |-> [i \in 1..(Len(buf) \div 3) |-> <<tmp[2][i], tmp[3][i]>>],
         idx2arclen |-> tmp[1]]

\* offsets the test of the reader adds to the breakpoints before saving
ArcOffsets == {R(10)}

\* xy_obj.idx2arclen = xy_obj.idx2arclen + offset
offset_idx2arclen(offset) ==
    /\ cls = "polyline"
    /\ pc = "idle"
    /\ FLt(idx2arclen[1], offset)
    /\ idx2arclen' = [j \in 1..Len(idx2arclen) |-> FAdd(idx2arclen[j], offset)]
    /\ ret' = Returned("offset", offset, <<>>)
    /\ UNCHANGED <<cls, XY_waypoints, pc, fr, spline, XY_base, caller_XY, other_objs>>

save_as_bin ==
    /\ cls = "polyline"
    /\ pc = "idle"
    /\ file' = tofile(waypt_records(XY_waypoints, idx2arclen))
    /\ ret' = Returned("save_as_bin", <<>>, <<>>)
    /\ UNCHANGED <<cls, XY_waypoints, idx2arclen, pc, fr, spline, XY_base, caller_XY, seg, robot_objs>>

\* polyline_from_bin(path, keep_src_arc_length): a polyline constructed from the
\* waypoints read, with the arc lengths read when keep_src_arc_length is set
polyline_from_bin(keep_src_arc_length) ==
    /\ file # <<>>
    /\ pc = "idle"
    /\ LET src == waypts_read(file)
       IN  /\ keep_src_arc_length \/ RationalChords(src.XY_waypoints)
           /\ ret' = Returned("polyline_from_bin",
                              [keep_src_arc_length |-> keep_src_arc_length],
                              [XY_waypoints |-> src.XY_waypoints,
                               idx2arclen |-> IF keep_src_arc_length
                                              THEN src.idx2arclen
                                              ELSE <<R(0)>> \o calc_cum_distance(src.XY_waypoints)])
    /\ UNCHANGED <<cls, XY_waypoints, idx2arclen, pc, fr, spline, XY_base, caller_XY, other_objs>>

NextBin ==
    \/ \E XY \in InitArrays : polyline_init(XY) /\ UNCHANGED caller_XY
    \/ \E offset \in ArcOffsets : offset_idx2arclen(offset)
    \/ save_as_bin
    \/ \E keep \in BOOLEAN : polyline_from_bin(keep)

SpecBin == Init /\ [][NextBin]_vars

\* C16: the curve polyline_from_bin loads from the file save_as_bin wrote has
\* the XY_waypoints of the saved curve, for every number of waypoints, and its
\* idx2arclen when keep_src_arc_length is set, also for offset breakpoints.
C16_RoundTrip ==
    (/\ ret.op = "polyline_from_bin"
     /\ file = tofile(waypt_records(XY_waypoints, idx2arclen))) =>
        /\ ret.val.XY_waypoints = XY_waypoints
        /\ ret.args.keep_src_arc_length => ret.val.idx2arclen = idx2arclen

\* ------------------------------------------------------------ the periodic spline curve
\* cubic_interpolating_loop, as the specification describes it: the waypoints
\* are closed by the first waypoint as the final breakpoint, the breakpoints are
\* the chord lengths, the curve is the periodic interpolating cubic spline, and
\* every evaluation is of the parameter wrapped into [s_min, s_max).  The model
\* fits loops of 4 waypoints one unit apart: the second derivatives M at the
\* breakpoints solve M[i-1] + 4 M[i] + M[i+1] = 6 (y[i+1] - 2 y[i] + y[i-1])
\* cyclically, and the inverse of that 4 x 4 circulant matrix has the first row
\* LoopInverse.
s_min(arclens) == arclens[1]
s_max(arclens) == arclens[Len(arclens)]
\* the distance to the last waypoint, without the closing segment
tot_dist_open(arclens) == FSub(arclens[Len(arclens) - 1], s_min(arclens))
tot_dist(arclens) == FSub(s_max(arclens), s_min(arclens))

\* wrap(s): add or subtract the period until s is in [s_min, s_max)
RECURSIVE wrap(_, _)
wrap(arclens, s) ==
    IF FLt(s, s_min(arclens)) THEN wrap(arclens, FAdd(s, tot_dist(arclens)))
    ELSE IF FLe(s_max(arclens), s) THEN wrap(arclens, FSub(s, tot_dist(arclens)))
    ELSE s

\* the breakpoints of the closed waypoint sequence
closed_arclens(XY) == <<R(0)>> \o calc_cum_distance(XY \o <<XY[1]>>)

LoopInverse == <<Q(7, 24), Q(-1, 12), Q(1, 24), Q(-1, 12)>>

\* index i + d of a cycle of 4, 1-based
Cyc(i, d) == ((i - 1 + d + 4) % 4) + 1

\* the second derivatives of the periodic spline through y at unit spacing
periodic_moments(y) ==
    LET rhs(j) == FMul(R(6), FAdd(FSub(y[Cyc(j, 1)], FMul(R(2), y[j])), y[Cyc(j, -1)]))
    IN  [i \in 1..4 |->
            FAdd(FAdd(FMul(LoopInverse[Cyc(i, 0)], rhs(1)),
                      FMul(LoopInverse[Cyc(i, -1)], rhs(2))),
                 FAdd(FMul(LoopInverse[Cyc(i, -2)], rhs(3)),
                      FMul(LoopInverse[Cyc(i, -3)], rhs(4))))]

\* the polynomial pieces a + b u + c u^2 + d u^3 of the periodic spline
periodic_pieces(y) ==
    LET M == periodic_moments(y)
    IN  [i \in 1..4 |->
            [a |-> y[i],
             b |-> FSub(FSub(y[Cyc(i, 1)], y[i]),
                        FDiv(FAdd(FMul(R(2), M[i]), M[Cyc(i, 1)]), R(6))),
             c |-> FDiv(M[i], R(2)),
             d |-> FDiv(FSub(M[Cyc(i, 1)], M[i]), R(6))]]

loop_init_spline_objs(XY) ==
    [spl_x |-> periodic_pieces([j \in 1..Len(XY) |-> XY[j][1]]),
     spl_y |-> periodic_pieces([j \in 1..Len(XY) |-> XY[j][2]])]

\* derivative der of one coordinate at the parameter s, without the wrap
pieces_eval(tab, arclens, s, der) ==
    LET idx == search_first_bkpt_idx(arclens, s)
        u == FSub(s, arclens[idx + 1])
        p == tab[idx + 1]
    IN  IF der = 0
        THEN FAdd(FAdd(FAdd(p.a, FMul(p.b, u)), FMul(p.c, FMul(u, u))),
                  FMul(p.d, FMul(FMul(u, u), u)))
        ELSE IF der = 1
        THEN FAdd(FAdd(p.b, FMul(FMul(R(2), p.c), u)), FMul(FMul(R(3), p.d), FMul(u, u)))
        ELSE FAdd(FMul(R(2), p.c), FMul(FMul(R(6), p.d), u))

loop_eval(sp, arclens, s, der) ==
    LET w == wrap(arclens, s)
    IN  <<pieces_eval(sp.spl_x, arclens, w, der), pieces_eval(sp.spl_y, arclens, w, der)>>

loop_get_pos(sp, arclens, s) == loop_eval(sp, arclens, s, 0)
loop_get_tang(sp, arclens, s) == loop_eval(sp, arclens, s, 1)
loop_get_deri_tang(sp, arclens, s) == loop_eval(sp, arclens, s, 2)
loop_get_utang(sp, arclens, s) ==
    LET tangents == loop_get_tang(sp, arclens, s)
    IN  VDivS(tangents, VNorm(tangents))
loop_get_tang_and_curv(sp, arclens, s) ==
    LET tangent_vecs == loop_get_tang(sp, arclens, s)
        ddot_vecs == loop_get_deri_tang(sp, arclens, s)
    IN  <<tangent_vecs, signed_curvature(tangent_vecs, ddot_vecs)>>

\* the unit square, counter-clockwise and clockwise
LoopWayptSeqs ==
    { <<Vec(0, 0), Vec(1, 0), Vec(1, 1), Vec(0, 1)>>,
      <<Vec(0, 0), Vec(0, 1), Vec(1, 1), Vec(1, 0)>> }
\* the numbers of periods the parameter is shifted by
LoopPeriods == {-2, -1, 1, 2, 3, 8, 12}
\* parameters between s_min and s_max, and some of them shifted
LoopParams ==
    {Q(j, 2) : j \in 0..8} \cup {Q(j, 2) : j \in 9..12} \cup {Q(-j, 2) : j \in 1..8}

cubic_interpolating_loop_init(XY) ==
    /\ cls = "none"
    /\ pc = "idle"
    /\ cls' = "cubic_interpolating_loop"
    /\ XY_waypoints' = XY
    /\ XY_base' = np_copy("caller")
    /\ idx2arclen' = closed_arclens(XY)
    /\ spline' = loop_init_spline_objs(XY)
    /\ ret' = Returned("__init__", XY, <<>>)
    /\ UNCHANGED <<pc, fr, caller_XY, other_objs>>

\* get_pos, get_tang, get_deri_tang, get_utang and get_tang_and_curv of the loop
loop_call(method, s, val) ==
    /\ cls = "cubic_interpolating_loop"
    /\ pc = "idle"
    /\ ret' = Returned(method, s, val)
    /\ UNCHANGED <<cls, XY_waypoints, idx2arclen, pc, fr, spline, XY_base, caller_XY, other_objs>>

loop_call_get_pos(s) == loop_call("loop.get_pos", s, loop_get_pos(spline, idx2arclen, s))
loop_call_get_tang(s) == loop_call("loop.get_tang", s, loop_get_tang(spline, idx2arclen, s))
loop_call_get_deri_tang(s) ==
    loop_call("loop.get_deri_tang", s, loop_get_deri_tang(spline, idx2arclen, s))
loop_call_get_utang(s) ==
    /\ cls = "cubic_interpolating_loop"
    /\ RationalNorm(loop_get_tang(spline, idx2arclen, s))
    /\ loop_call("loop.get_utang", s, loop_get_utang(spline, idx2arclen, s))
loop_call_get_tang_and_curv(s) ==
    /\ cls = "cubic_interpolating_loop"
    /\ RationalNorm(loop_get_tang(spline, idx2arclen, s))
    /\ loop_call("loop.get_tang_and_curv", s, loop_get_tang_and_curv(spline, idx2arclen, s))

NextLoop ==
    \/ \E XY \in LoopWayptSeqs : cubic_interpolating_loop_init(XY)
    \/ \E s \in LoopParams : loop_call_get_pos(s)
    \/ \E s \in LoopParams : loop_call_get_tang(s)
    \/ \E s \in LoopParams : loop_call_get_deri_tang(s)
    \/ \E s \in LoopParams : loop_call_get_utang(s)
    \/ \E s \in LoopParams : loop_call_get_tang_and_curv(s)

SpecLoop == Init /\ [][NextLoop]_vars

\* the parameter s shifted by k periods, the period being s_max - s_min
Shifted(s, k) == FAdd(s, FMul(R(k), FSub(s_max(idx2arclen), s_min(idx2arclen))))

call_get_pos_utang(arclength, clip) ==
    /\ cls = "polyline"
    /\ pc = "idle"
    /\ ret' = Returned("_get_pos_utang", [arclength |-> arclength, clip |-> clip],
                       [pos_utang |-> _get_pos_utang(XY_waypoints, idx2arclen, arclength, clip),
                        searches |-> _get_pos_utang_searches(XY_waypoints, idx2arclen, arclength, clip)])
    /\ UNCHANGED <<cls, XY_waypoints, idx2arclen, pc, fr, spline, XY_base, caller_XY, other_objs>>

NextEval ==
    \/ \E XY \in InitArrays : polyline_init(XY) /\ UNCHANGED caller_XY
    \/ \E XY_in \in AddBatches : add(XY_in) /\ UNCHANGED caller_XY
    \/ \E s \in ArcLens, c \in BOOLEAN : call_get_pos_utang(s, c)

SpecEval == Init /\ [][NextEval]_vars

\* C18: _get_pos_utang(s, clip) returns the pair (_get_pos(s, clip),
\* _get_utang(s, clip)) and searches the breakpoints once.
C18_CombinedEvaluator ==
    ret.op = "_get_pos_utang" =>
        /\ ret.val.pos_utang =
              <<_get_pos(XY_waypoints, idx2arclen, ret.args.arclength, ret.args.clip),
                _get_utang(XY_waypoints, idx2arclen, ret.args.arclength, ret.args.clip)>>
        /\ Len(ret.val.searches) = 1

\* a clipped evaluation beyond the end of a polyline of three segments
C18_Witness ==
    /\ ret.op = "_get_pos_utang"
    /\ ret.args.clip
    /\ FLt(get_tot_dist(idx2arclen), ret.args.arclength)
    /\ Len(XY_waypoints) = 4
    /\ VFinite(ret.val.pos_utang[2])
    /\ ret.val.searches = <<2>>

\* ------------------------------------------------------------ basic_ops.py, pose2_concepts.py
\* numpy's pi and 2 * pi, in half turns
pi == R(1)
two_pi == FMul(R(2), pi)

\* pose2(x, y, theta): x and y are stored, then wrap_angle(theta) is entered
pose2_init(x, y, theta) ==
    /\ cls = "none"
    /\ pc = "idle"
    /\ pc' = "wrap_angle_1"
    /\ fr' = [x |-> x, y |-> y, theta_in |-> theta, theta |-> theta]
    /\ ret' = NoReturn
    /\ UNCHANGED <<cls, XY_waypoints, idx2arclen, spline, XY_base, caller_XY, other_objs>>

\* one pass through the body of the first loop: while theta < -pi
wrap_angle_add ==
    /\ pc = "wrap_angle_1"
    /\ FLt(fr.theta, Neg(pi))
    /\ fr' = [fr EXCEPT !.theta = FAdd(fr.theta, two_pi)]
    /\ UNCHANGED <<cls, XY_waypoints, idx2arclen, pc, ret, spline, XY_base, caller_XY, other_objs>>

\* the first loop ends
wrap_angle_next ==
    /\ pc = "wrap_angle_1"
    /\ ~FLt(fr.theta, Neg(pi))
    /\ pc' = "wrap_angle_2"
    /\ UNCHANGED <<cls, XY_waypoints, idx2arclen, fr, ret, spline, XY_base, caller_XY, other_objs>>

\* one pass through the body of the second loop: while theta > pi
wrap_angle_sub ==
    /\ pc = "wrap_angle_2"
    /\ FLt(pi, fr.theta)
    /\ fr' = [fr EXCEPT !.theta = FSub(fr.theta, two_pi)]
    /\ UNCHANGED <<cls, XY_waypoints, idx2arclen, pc, ret, spline, XY_base, caller_XY, other_objs>>

\* wrap_angle returns theta and pose2.__init__ stores it
wrap_angle_return ==
    /\ pc = "wrap_angle_2"
    /\ ~FLt(pi, fr.theta)
    /\ pose' = [x |-> fr.x, y |-> fr.y, theta |-> fr.theta]
    /\ ret' = Returned("pose2", [x |-> fr.x, y |-> fr.y, theta |-> fr.theta_in], fr.theta)
    /\ pc' = "idle"
    /\ fr' = NoFrame
    /\ UNCHANGED <<cls, XY_waypoints, idx2arclen, spline, XY_base, caller_XY, seg, file, sel, ctr, sim>>

\* finite angles given to pose2, in half turns: from -3 pi to 4 pi
PoseAngles ==
    { R(-3), Q(-5, 2), R(-2), Q(-3, 2), R(-1), Q(-1, 2), R(0), Q(1, 3),
      Q(1, 2), R(1), Q(3, 2), R(2), Q(5, 2), R(3), R(4) }
PoseCoords == {R(0), R(1)}

NextPose ==
    \/ \E x \in PoseCoords, y \in PoseCoords, theta \in PoseAngles : pose2_init(x, y, theta)
    \/ wrap_angle_add
    \/ wrap_angle_next
    \/ wrap_angle_sub
    \/ wrap_angle_return

SpecPose == Init /\ [][NextPose]_vars

\* the angles differ by a whole number of turns
SameDirection(a, b) == LET d == FSub(a, b) IN d[2] = 1 /\ d[1] % 2 = 0

\* C21: the theta a pose2 stores lies in (-pi, pi], is never -pi, and differs from
\* the theta given by a multiple of 2 pi.
C21_WrapRange ==
    ret.op = "pose2" =>
        /\ FLt(Neg(pi), pose.theta)
        /\ FLe(pose.theta, pi)
        /\ SameDirection(pose.theta, ret.args.theta)

\* what wrap_angle establishes: the closed interval [-pi, pi]
C21_ClosedRange ==
    ret.op = "pose2" =>
        /\ FLe(Neg(pi), pose.theta)
        /\ FLe(pose.theta, pi)
        /\ SameDirection(pose.theta, ret.args.theta)

\* ------------------------------------------------------------ the domain of a polyline
\* polyline.search_first_bkpt_idx(arclength)
call_search_first_bkpt_idx(arclength) ==
    /\ cls = "polyline"
    /\ pc = "idle"
    /\ ret' = Returned("search_first_bkpt_idx", arclength,
                       search_first_bkpt_idx(idx2arclen, arclength))
    /\ UNCHANGED <<cls, XY_waypoints, idx2arclen, pc, fr, spline, XY_base, caller_XY, other_objs>>

\* polyline.is_interior(arc_length_test)
call_is_interior(arc_length_test) ==
    /\ cls = "polyline"
    /\ pc = "idle"
    /\ ret' = Returned("is_interior", arc_length_test, is_interior(idx2arclen, arc_length_test))
    /\ UNCHANGED <<cls, XY_waypoints, idx2arclen, pc, fr, spline, XY_base, caller_XY, other_objs>>

\* arc lengths around the breakpoints of the polylines and of the offset polylines
DomainArcLens ==
    {R(-1), R(0), Q(1, 2), R(1), R(3), R(5), R(10), Q(21, 2), R(11), R(13)}
\* the queries of the search: also -inf and +inf
DomainQueries == DomainArcLens \cup {<<-1, 0>>, <<1, 0>>}

NextDomain ==
    \/ \E XY \in InitArrays : polyline_init(XY) /\ UNCHANGED caller_XY
    \/ \E XY_in \in AddBatches : add(XY_in) /\ UNCHANGED caller_XY
    \/ \E offset \in ArcOffsets : offset_idx2arclen(offset)
    \/ \E q \in DomainQueries : call_search_first_bkpt_idx(q)
    \/ \E s \in DomainArcLens, g \in BOOLEAN, c \in BOOLEAN : call_get_pos(s, g, c)
    \/ \E s \in DomainArcLens : call_is_interior(s)

SpecDomain == Init /\ [][NextDomain]_vars

\* C23: search_first_bkpt_idx returns an index idx (0-based) with 0 <= idx <= n-2:
\* 0 for a query below the first breakpoint, n-2 for a query at or above the last
\* one, otherwise the index of the segment that holds the query; idx+1 is an
\* index of a waypoint and of a breakpoint.
C23_SearchIndex ==
    ret.op = "search_first_bkpt_idx" =>
        LET n == Len(idx2arclen)
            q == ret.args
            idx == ret.val
        IN  /\ n >= 2
            /\ 0 <= idx /\ idx <= n - 2
            /\ FLt(q, idx2arclen[1]) => idx = 0
            /\ FLe(idx2arclen[n], q) => idx = n - 2
            /\ (~FLt(q, idx2arclen[1]) /\ ~FLe(idx2arclen[n], q)) =>
                  FLe(idx2arclen[idx + 1], q) /\ FLt(q, idx2arclen[idx + 2])
            /\ idx + 2 \in DOMAIN XY_waypoints
            /\ idx + 2 \in DOMAIN idx2arclen

\* a query at the last breakpoint of an offset polyline of four waypoints
C23_Witness ==
    /\ ret.op = "search_first_bkpt_idx"
    /\ Len(idx2arclen) = 4
    /\ idx2arclen[1] # R(0)
    /\ ret.args = idx2arclen[4]
    /\ ret.val = 2

\* get_pos was called at a breakpoint
AtBreakpoint == ret.op = "get_pos" /\ \E i \in DOMAIN idx2arclen : idx2arclen[i] = ret.args.arclength

\* C25: get_pos(idx2arclen[i]) is XY_waypoints[i] for every waypoint index i, with
\* clipping on or off.
C25_Interpolates ==
    AtBreakpoint =>
        \A i \in DOMAIN idx2arclen :
            idx2arclen[i] = ret.args.arclength => ret.val = XY_waypoints[i]

\* the same of a polyline whose breakpoints are strictly increasing
C25_InterpolatesDistinct ==
    (AtBreakpoint /\ StrictlyIncreasing(idx2arclen)) =>
        \A i \in DOMAIN idx2arclen :
            idx2arclen[i] = ret.args.arclength => ret.val = XY_waypoints[i]

\* C27: with strictly increasing breakpoints, offset or not, get_pos(s, clip=True)
\* with s below idx2arclen[0] is the first waypoint, and is_interior(s) is true
\* exactly when idx2arclen[0] < s < idx2arclen[-1].
C27_OwnDomain ==
    (cls = "polyline" /\ StrictlyIncreasing(idx2arclen)) =>
        /\ (ret.op = "get_pos" /\ ret.args.clip /\ FLt(ret.args.arclength, idx2arclen[1])) =>
              ret.val = XY_waypoints[1]
        /\ ret.op = "is_interior" =>
              (ret.val <=> (FLt(idx2arclen[1], ret.args)
                              /\ FLt(ret.args, idx2arclen[Len(idx2arclen)])))

\* the same of a polyline whose first breakpoint is 0
C27_ZeroBasedDomain ==
    (cls = "polyline" /\ StrictlyIncreasing(idx2arclen) /\ idx2arclen[1] = R(0)) =>
        /\ (ret.op = "get_pos" /\ ret.args.clip /\ FLt(ret.args.arclength, idx2arclen[1])) =>
              ret.val = XY_waypoints[1]
        /\ ret.op = "is_interior" =>
              (ret.val <=> (FLt(idx2arclen[1], ret.args)
                              /\ FLt(ret.args, idx2arclen[Len(idx2arclen)])))

\* ------------------------------------------------------------ project, continued
\* C24: in a project of the base class called with default arguments, the tangent
\* of every iteration has norm 1, whatever the parametric speed of the curve.
C24_UnitTangent ==
    (pc = "project" /\ cls = "planar_curve_deg1" /\ fr.how = "default" /\ fr.i > 0) =>
        Dot(fr.curve_unit_tang_now, fr.curve_unit_tang_now) = R(1)

\* a completed project, with iter_max >= 2, on a polyline of two distinct waypoints
C26_Scenario ==
    /\ ProjectReturned
    /\ cls = "polyline"
    /\ Len(XY_waypoints) = 2
    /\ XY_waypoints[1] # XY_waypoints[2]
    /\ ret.args.iter_max >= 2

\* C26: on a polyline of two distinct waypoints p0, p1 with unit direction u,
\* project with iter_max >= 2 converges within two iterations: the first moves
\* the iterate to dot(q - p0, u), the second has increment 0, and the result is
\* (dot(q - p0, u), dot(q - p0, rot90ccw(u))), its arc length not NaN.
C26_TwoIterations ==
    C26_Scenario =>
        LET f == ret.args
            p0 == XY_waypoints[1]
            p0_to_p1 == VSub(XY_waypoints[2], p0)
            u == VDivS(p0_to_p1, VNorm(p0_to_p1))
            foot == Dot(VSub(f.XY_query, p0), u)
            n == Len(f.increments)
        IN  /\ f.converged
            /\ n <= 2
            /\ FAdd(f.arclength_init_guess, f.increments[1]) = foot
            /\ n = 2 => f.increments[2] = R(0)
            /\ ~IsNaN(ret.val[1])
            /\ ret.val = <<foot, Dot(VSub(f.XY_query, p0), <<Neg(u[2]), u[1]>>)>>

\* a default call that needed the second iteration, the query off the curve
C26_Witness ==
    /\ C26_Scenario
    /\ ret.args.how = "default"
    /\ Len(ret.args.increments) = 2
    /\ ~SmallIncrement(ret.args, 1)
    /\ ret.val[2] # R(0)

\* ------------------------------------------------------------ project as one call
\* one pass through the body of the while loop of polyline.project: the locals
\* st after it
project_pass(XY, arclens, XY_query, soln_tolerance, st) ==
    LET s_old == st.s_new
        pu == _get_pos_utang(XY, arclens, s_old, FALSE)
        delta_XY == VSub(XY_query, pu[1])
        s_increment == Dot(delta_XY, pu[2])
        s_new == update_law(st.s_new, s_increment)
    IN  [s_new |-> s_new,
         i |-> st.i + 1,
         converged |-> is_converged(s_new, s_old, soln_tolerance),
         delta_XY |-> delta_XY,
         curve_unit_tang_now |-> pu[2]]

\* the while loop run to its end (the one-element set binds the locals of a
\* pass to their values before the next pass reads them)
RECURSIVE project_loop(_, _, _, _, _, _)
project_loop(XY, arclens, XY_query, iter_max, soln_tolerance, st) ==
    IF ~loop_continues(st.converged, st.i, iter_max) THEN st
    ELSE CHOOSE last \in
             { project_loop(XY, arclens, XY_query, iter_max, soln_tolerance, nxt) :
                  nxt \in {project_pass(XY, arclens, XY_query, soln_tolerance, st)} } : TRUE

\* polyline.project(XY_query, arclength_init_guess, iter_max, soln_tolerance):
\* the pair (s_new, projected_distance)
polyline_project(XY, arclens, XY_query, arclength_init_guess, iter_max, soln_tolerance) ==
    LET st == project_loop(XY, arclens, XY_query, iter_max, soln_tolerance,
                           [s_new |-> arclength_init_guess,
                            i |-> 0,
                            converged |-> FALSE,
                            delta_XY |-> <<NaN, NaN>>,
                            curve_unit_tang_now |-> <<NaN, NaN>>])
    IN  <<returned_arclength("polyline", st.converged, st.s_new),
          projected_distance(st.delta_XY, st.curve_unit_tang_now)>>

\* np.cos and np.sin of an angle that is a multiple of pi / 2
QuarterTurns(theta) == (2 * theta[1]) \div theta[2]
Cos(theta) ==
    LET q == QuarterTurns(theta) % 4
    IN  IF q = 0 THEN R(1) ELSE IF q = 2 THEN R(-1) ELSE R(0)
Sin(theta) ==
    LET q == QuarterTurns(theta) % 4
    IN  IF q = 1 THEN R(1) ELSE IF q = 3 THEN R(-1) ELSE R(0)

\* ------------------------------------------------------------ path_timing.py
\* default value of the parameter max_plausible_progress_rate
DefaultMaxPlausibleProgressRate == 30

\* mutant: every projected arc length is taken as the new progress
progress_advances_always(progress_change) == TRUE

\* elif progress_change > 0.0
progress_advances(progress_change) == FLt(R(0), progress_change)

\* p0v0pfvf_selector.__init__; the arguments are floats
selector_init(initial_progress, update_interval, max_plausible_progress_rate) ==
    /\ cls = "polyline"
    /\ pc = "idle"
    /\ sel = NoSelector
    /\ IF FLt(R(0), update_interval) /\ FLt(R(0), max_plausible_progress_rate)
       THEN /\ sel' = [progress |-> initial_progress,
                       progress_change_ub |-> FMul(max_plausible_progress_rate, update_interval)]
            /\ ret' = Returned("p0v0pfvf_selector", initial_progress, <<>>)
       ELSE /\ ret' = Raised("p0v0pfvf_selector", initial_progress, "AssertionError")
            /\ UNCHANGED sel
    /\ UNCHANGED <<cls, XY_waypoints, idx2arclen, pc, fr, spline, XY_base, caller_XY,
                   seg, file, pose, ctr, sim>>

\* if np.abs(progress_change) > self.progress_change_ub
progress_implausible(progress_change_ub, progress_change) ==
    FLt(progress_change_ub, FAbs(progress_change))

\* the boundary conditions update computes from the progress it has stored:
\* p0, v0 from the robot pose, pf, vf from the path at the terminal progress
boundary_conditions(XY, arclens, progress, robot_pose, T_horizon, desired_progress_rate) ==
    LET progress_terminal == FAdd(progress, FMul(desired_progress_rate, T_horizon))
    IN  [p0 |-> <<robot_pose[1], robot_pose[2]>>,
         v0 |-> VScale(<<Cos(robot_pose[3]), Sin(robot_pose[3])>>, desired_progress_rate),
         pf |-> get_pos(XY, arclens, progress_terminal, TRUE),
         vf |-> VScale(_get_utang(XY, arclens, progress_terminal, TRUE), desired_progress_rate)]

\* p0v0pfvf_selector.update(robot_pose, T_horizon, desired_progress_rate)
selector_update(robot_pose, T_horizon, desired_progress_rate) ==
    /\ cls = "polyline"
    /\ pc = "idle"
    /\ sel # NoSelector
    /\ \E arc_length_progress_now \in
             {polyline_project(XY_waypoints, idx2arclen, <<robot_pose[1], robot_pose[2]>>,
                               sel.progress, DefaultIterMax, DefaultTolerance)[1]} :
       \E progress_change \in {FSub(arc_length_progress_now, sel.progress)} :
          LET args == [robot_pose |-> robot_pose, T_horizon |-> T_horizon,
                       desired_progress_rate |-> desired_progress_rate]
          IN  IF progress_implausible(sel.progress_change_ub, progress_change)
              THEN /\ ret' = Raised("update", args, "ValueError")
                   /\ UNCHANGED sel
              ELSE /\ sel' = [sel EXCEPT !.progress = IF progress_advances(progress_change)
                                                        THEN arc_length_progress_now
                                                        ELSE sel.progress]
                   /\ ret' = Returned("update", args,
                                      boundary_conditions(XY_waypoints, idx2arclen, sel'.progress,
                                                          robot_pose, T_horizon,
                                                          desired_progress_rate))
    /\ UNCHANGED <<cls, XY_waypoints, idx2arclen, pc, fr, spline, XY_base, caller_XY,
                   seg, file, pose, ctr, sim>>

\* the paths followed: a straight segment, a path with a corner, a path with a
\* corner and two more segments, and a path whose last two waypoints are equal
FollowedPaths ==
    { array2d(<<Vec(0, 0), Vec(1, 0)>>),
      array2d(<<Vec(0, 0), Vec(1, 0), Vec(1, 1)>>),
      array2d(<<Vec(0, 0), Vec(1, 0), Vec(1, 1), Vec(0, 1)>>),
      array2d(<<Vec(0, 0), Vec(1, 0), Vec(1, 0)>>) }

\* the arguments of the selector: the progress at the start, the update interval
\* and the largest plausible progress rate
SelProgresses == {R(0), Q(1, 2)}
SelIntervals == {R(0), Q(1, 10)}
SelRates == {R(DefaultMaxPlausibleProgressRate), R(10)}
\* robot poses (x, y, yaw), horizons and desired progress rates
RobotPoses ==
    { <<x, y, yaw>> : x \in {Q(1, 2), R(2)}, y \in {Q(1, 2), R(-1)}, yaw \in {R(0), Q(1, 2)} }
Horizons == {R(2)}
ProgressRates == {Q(1, 2), R(1)}

NextSel ==
    \/ \E XY \in FollowedPaths : polyline_init(XY) /\ UNCHANGED caller_XY
    \/ \E s \in SelProgresses, dt \in SelIntervals, r \in SelRates : selector_init(s, dt, r)
    \/ \E x \in RobotPoses, T \in Horizons, r \in ProgressRates : selector_update(x, T, r)

SpecSel == Init /\ [][NextSel]_vars

\* C22: when progress + desired_progress_rate * T_horizon exceeds the last
\* breakpoint, the terminal position pf that update returns is the point of the
\* extended last segment at that parameter, not the last waypoint.
C22_TerminalExtrapolated ==
    (ret.op = "update" /\ ret.raised = "none" /\ StrictlyIncreasing(idx2arclen)) =>
        LET progress_terminal ==
                FAdd(sel.progress, FMul(ret.args.desired_progress_rate, ret.args.T_horizon))
            n == Len(idx2arclen)
        IN  FLt(idx2arclen[n], progress_terminal) => ret.val.pf = SegmentMap(n - 1, progress_terminal)

\* the arc length the update that has just returned or raised got from project
ProjectedNow(progress_before) ==
    polyline_project(XY_waypoints, idx2arclen, <<ret'.args.robot_pose[1], ret'.args.robot_pose[2]>>,
                     progress_before, DefaultIterMax, DefaultTolerance)[1]

\* C28: the progress of the selector is never NaN and never decreases; an update
\* replaces it only by the projected arc length, when that is greater than the
\* progress and not farther from it than progress_change_ub; an update that
\* raises ValueError and an update whose projection is NaN leave it unchanged.
C28_ProgressMonotone ==
    /\ [](sel # NoSelector => IsFinite(sel.progress))
    /\ [][(sel # NoSelector) =>
            /\ FLe(sel.progress, sel'.progress)
            /\ sel'.progress # sel.progress =>
                  /\ sel'.progress = ProjectedNow(sel.progress)
                  /\ FLt(sel.progress, sel'.progress)
                  /\ FLe(FSub(sel'.progress, sel.progress), sel.progress_change_ub)
            /\ ret'.raised = "ValueError" => sel' = sel
            /\ IsNaN(ProjectedNow(sel.progress)) => (sel' = sel /\ ret'.raised = "none")]_vars

\* an update that advanced the progress beyond the first corner
C28_Witness ==
    /\ ret.op = "update"
    /\ ret.raised = "none"
    /\ FLt(R(1), sel.progress)
    /\ Len(idx2arclen) >= 3

\* an update refused as implausible, and an update whose projection did not converge
C28_Refused == ret.op = "update" /\ ret.raised = "ValueError"
C28_NotConverged ==
    /\ ret.op = "update"
    /\ ret.raised = "none"
    /\ StrictlyIncreasing(idx2arclen)
    /\ IsNaN(polyline_project(XY_waypoints, idx2arclen,
                              <<ret.args.robot_pose[1], ret.args.robot_pose[2]>>,
                              sel.progress, DefaultIterMax, DefaultTolerance)[1])

\* ------------------------------------------------------------ kinematic.py, path_following.py
\* calc_xy_front_axle(robot_pose, wheelbase): the point (wheelbase, 0) of the
\* robot frame, rotated by the yaw and shifted by the position
calc_xy_front_axle(robot_pose, wheelbase) ==
    <<FAdd(FMul(wheelbase, Cos(robot_pose[3])), robot_pose[1]),
      FAdd(FMul(wheelbase, Sin(robot_pose[3])), robot_pose[2])>>

\* Vx_actual / np.cos(steering_actual)
v_front_axle_from_robot_state(Vx_actual, steering_actual) == FDiv(Vx_actual, Cos(steering_actual))

\* np.arctan2(y, x) of a vector along an axis, in half turns; NaN of a NaN
arctan2(y, x) ==
    IF IsNaN(y) \/ IsNaN(x) THEN NaN
    ELSE IF y = R(0) THEN (IF FLt(x, R(0)) THEN pi ELSE R(0))
    ELSE IF FLt(R(0), y) THEN FDiv(pi, R(2)) ELSE Neg(FDiv(pi, R(2)))

\* default value of the parameter min_vel_to_enable_steer
DefaultMinVelToEnableSteer == Q(1, 1000)
\* the tolerance __call__ passes to project
FollowerTolerance == Q(1, 100)
\* the least steering_max the constructor accepts, 1e-3 rad, in half turns:
\* 1 / (1000 pi), taken as 1 / 3142
LeastSteeringMax == Q(1, 3142)

\* if np.abs(self.s_last - s_now) * self.f_update > 2.0 * robot_state[4]
abrupt_change(s_last, s_now, f_update, Vx_actual) ==
    FLt(FMul(R(2), Vx_actual), FMul(FAbs(FSub(s_last, s_now)), f_update))

\* the steering command of __call__.  stanley(...) is an arctangent of the
\* ratio gain * error_dist / v_front_axle, wrapped and clipped: the command of
\* that branch is kept as the arguments of the call.
steering_angle_cmd(XY, arclens, follower, robot_state, s_now, offset_now) ==
    LET unit_x_vector_Frenet_wrt_world == _get_utang(XY, arclens, s_now, FALSE)
        error_yaw == FSub(robot_state[3],
                          arctan2(unit_x_vector_Frenet_wrt_world[2],
                                  unit_x_vector_Frenet_wrt_world[1]))
        vf == v_front_axle_from_robot_state(robot_state[5], robot_state[4])
    IN  IF FLt(follower.v_enable, vf)
        THEN [hold |-> FALSE,
              value |-> [error_dist |-> offset_now, error_yaw |-> error_yaw,
                         v_front_axle |-> vf, gain |-> follower.k,
                         max_steering |-> follower.u_max]]
        ELSE [hold |-> TRUE, value |-> robot_state[4]]

\* stanley_path_follower.__init__; the arguments are floats, the path is a polyline
follower_init(s_last, wheelbase, steering_max, gain, sampling_period) ==
    /\ cls = "polyline"
    /\ pc = "idle"
    /\ ctr = NoFollower
    /\ IF /\ FLt(Q(1, 100), wheelbase)
          /\ FLt(R(0), sampling_period)
          /\ FLt(Q(1, 100000), gain)
          /\ FLt(LeastSteeringMax, steering_max) /\ FLt(steering_max, FDiv(pi, R(2)))
          /\ FLt(R(0), DefaultMinVelToEnableSteer) /\ FLt(DefaultMinVelToEnableSteer, Q(1, 2))
       THEN /\ ctr' = [s_last |-> s_last, l |-> wheelbase, u_max |-> steering_max, k |-> gain,
                       f_update |-> FDiv(R(1), sampling_period),
                       v_enable |-> DefaultMinVelToEnableSteer]
            /\ ret' = Returned("stanley_path_follower", s_last, <<>>)
       ELSE /\ ret' = Raised("stanley_path_follower", s_last, "AssertionError")
            /\ UNCHANGED ctr
    /\ UNCHANGED <<cls, XY_waypoints, idx2arclen, pc, fr, spline, XY_base, caller_XY,
                   seg, file, pose, sel, sim>>

\* stanley_path_follower.__call__(sim_time, robot_state)
follower_call(sim_time, robot_state) ==
    /\ cls = "polyline"
    /\ pc = "idle"
    /\ ctr # NoFollower
    /\ \E projected \in
             {polyline_project(XY_waypoints, idx2arclen,
                               calc_xy_front_axle(robot_state, ctr.l),
                               ctr.s_last, DefaultIterMax, FollowerTolerance)} :
          LET s_now == projected[1]
              offset_now == projected[2]
              args == [sim_time |-> sim_time, robot_state |-> robot_state]
          IN  IF abrupt_change(ctr.s_last, s_now, ctr.f_update, robot_state[5])
              THEN /\ ret' = Raised("__call__", args, "ValueError")
                   /\ UNCHANGED ctr
              ELSE /\ ctr' = [ctr EXCEPT !.s_last = s_now]
                   /\ ret' = Returned("__call__", args,
                                      [steering_angle_cmd |->
                                           steering_angle_cmd(XY_waypoints, idx2arclen, ctr,
                                                              robot_state, s_now, offset_now),
                                       s_now |-> s_now,
                                       offset_now |-> offset_now])
    /\ UNCHANGED <<cls, XY_waypoints, idx2arclen, pc, fr, spline, XY_base, caller_XY,
                   seg, file, pose, sel, sim>>

\* the arguments of the follower
FollowerProgresses == {R(0), Q(1, 2)}
Wheelbases == {R(0), R(1)}
SteeringMaxes == {Q(1, 3)}
Gains == {R(1)}
SamplingPeriods == {Q(1, 10), R(1)}
\* robot states (x, y, yaw, steering, speed) of the rear axle
RobotStates ==
    { <<x, y, yaw, R(0), v>> :
         x \in {Q(-1, 2), R(1)}, y \in {R(-1), Q(1, 2)}, yaw \in {R(0), Q(1, 2)},
         v \in {R(0), R(1)} }
SimTimes == {R(0)}

NextFollow ==
    \/ \E XY \in FollowedPaths : polyline_init(XY) /\ UNCHANGED caller_XY
    \/ \E s \in FollowerProgresses, l \in Wheelbases, u \in SteeringMaxes, k \in Gains,
          dt \in SamplingPeriods : follower_init(s, l, u, k, dt)
    \/ \E t \in SimTimes, x \in RobotStates : follower_call(t, x)

SpecFollow == Init /\ [][NextFollow]_vars

\* C29: on a polyline path with strictly increasing breakpoints, the s_last of the
\* follower is a finite number after every call: the NaN of a projection that
\* did not converge is never stored.
C29_FiniteProgress ==
    (ctr # NoFollower /\ StrictlyIncreasing(idx2arclen)) => IsFinite(ctr.s_last)

\* what the plausibility check establishes: a call that raises ValueError leaves
\* s_last unchanged, and a call that stores a finite s_now found it within
\* 2 * speed / f_update of the s_last before
C29_PlausibleOrKept ==
    [][(ctr # NoFollower) =>
         /\ ret'.raised = "ValueError" => ctr' = ctr
         /\ (ctr'.s_last # ctr.s_last /\ IsFinite(ctr'.s_last)) =>
               FLe(FMul(FAbs(FSub(ctr.s_last, ctr'.s_last)), ctr.f_update),
                   FMul(R(2), ret'.args.robot_state[5]))]_vars

\* ------------------------------------------------------------ kinematic.py (plant), simulator.py
\* vectors of any length
SeqAdd(a, b) == [j \in DOMAIN a |-> FAdd(a[j], b[j])]
SeqScale(a, k) == [j \in DOMAIN a |-> FMul(a[j], k)]

\* np.tan of a multiple of pi
Tan(theta) == FDiv(Sin(theta), Cos(theta))

\* ackermann_car.ct(current_pose, vx, steering_angle) with wheelbase l.  The
\* yaw rate is in radians per second; the model steers with angles whose tangent
\* is 0, where it is 0 half turns per second as well.
ackermann_car_ct(l, current_pose, vx, steering_angle) ==
    <<FMul(vx, Cos(current_pose[3])),
      FMul(vx, Sin(current_pose[3])),
      FDiv(FMul(vx, Tan(steering_angle)), l)>>

\* ackermann_car_actuator.ct(current_state, vx_cmd, steering_angle_cmd); the last
\* parameter is steering_cmd here
ct(plant, current_state, vx_cmd, steering_cmd) ==
    ackermann_car_ct(plant.l, current_state, current_state[5], current_state[4])
        \o <<FMul(plant.k_steering, FSub(steering_cmd, current_state[4])),
             FMul(plant.k_vx, FSub(vx_cmd, current_state[5]))>>

\* the state step_actuate computes: one step of RK4, the inputs held constant
rk4_step(plant, step_sz, state_now, steering_cmd, vx_cmd) ==
    LET half == FMul(Q(1, 2), step_sz)
        k1 == ct(plant, state_now, vx_cmd, steering_cmd)
        k2 == ct(plant, SeqAdd(state_now, SeqScale(k1, half)), vx_cmd, steering_cmd)
        k3 == ct(plant, SeqAdd(state_now, SeqScale(k2, half)), vx_cmd, steering_cmd)
        k4 == ct(plant, SeqAdd(state_now, SeqScale(k3, step_sz)), vx_cmd, steering_cmd)
    IN  SeqAdd(state_now,
               SeqScale(SeqAdd(SeqAdd(k1, SeqScale(k2, R(2))), SeqAdd(SeqScale(k3, R(2)), k4)),
                        FDiv(step_sz, R(6))))

\* int(np.ceil(x)) of a finite number
Ceil(x) == -((-x[1]) \div x[2])

\* np.ones((n, m)) * np.nan
nan_rows(n, m) == [i \in 1..n |-> [j \in 1..m |-> NaN]]

\* mutant: the buffer of the inputs one row longer
U_buffer_long(N_steps) == nan_rows(N_steps + 1, 2)

\* self.U = np.ones((N_steps, 2), dtype=float) * np.nan
U_buffer(N_steps) == nan_rows(N_steps, 2)

\* self.X: N_steps + 1 rows of NaN, the first one set to the initial state
X_buffer(N_steps, initial_state) == [nan_rows(N_steps + 1, 5) EXCEPT ![1] = initial_state]

\* the asserts of ackermann_car_actuator.__init__ and ackermann_car.__init__
plant_asserts(wheelbase, tau_steering, tau_vx) ==
    /\ FLt(Q(1, 1000), tau_steering)
    /\ FLt(Q(1, 1000), tau_vx)
    /\ FLt(Q(1, 100), wheelbase)

\* a[i] of Python, i >= 0, is an element
IndexOk(a, i) == i < Len(a)

\* kinematic_car_simulator.__init__
simulator_init(step_sz, sim_duration, initial_state, wheelbase, tau_steering, tau_vx) ==
    /\ cls = "none"
    /\ pc = "idle"
    /\ sim = NoSimulator
    /\ LET args == [step_sz |-> step_sz, sim_duration |-> sim_duration,
                    initial_state |-> initial_state, wheelbase |-> wheelbase,
                    tau_steering |-> tau_steering, tau_vx |-> tau_vx]
           N_steps == Ceil(FDiv(sim_duration, step_sz))
       IN  IF /\ FLt(R(0), step_sz) /\ FLt(step_sz, sim_duration)
              /\ plant_asserts(wheelbase, tau_steering, tau_vx)
           THEN /\ sim' = [step_sz |-> step_sz,
                           num_steps |-> N_steps,
                           X |-> X_buffer(N_steps, initial_state),
                           U |-> U_buffer(N_steps),
                           plant |-> [l |-> wheelbase,
                                      k_steering |-> FDiv(R(1), tau_steering),
                                      k_vx |-> FDiv(R(1), tau_vx)],
                           step_ptr |-> 0]
                /\ ret' = Returned("kinematic_car_simulator", args, <<>>)
           ELSE /\ ret' = Raised("kinematic_car_simulator", args, "AssertionError")
                /\ UNCHANGED sim
    /\ UNCHANGED <<cls, XY_waypoints, idx2arclen, pc, fr, spline, XY_base, caller_XY,
                   seg, file, pose, sel, ctr>>

\* kinematic_car_simulator.is_completed()
is_completed ==
    /\ sim # NoSimulator
    /\ ret' = Returned("is_completed", <<>>, sim.step_ptr >= sim.num_steps)
    /\ UNCHANGED <<cls, XY_waypoints, idx2arclen, pc, fr, spline, XY_base, caller_XY, other_objs>>

\* kinematic_car_simulator.step_get_state()
step_get_state ==
    /\ sim # NoSimulator
    /\ ret' = Returned("step_get_state", <<>>, sim.X[sim.step_ptr + 1])
    /\ UNCHANGED <<cls, XY_waypoints, idx2arclen, pc, fr, spline, XY_base, caller_XY, other_objs>>

\* kinematic_car_simulator.step_actuate(steering_cmd, vx_cmd): the read of
\* X[step_ptr], the write of U[step_ptr], the increment, the write of X[step_ptr];
\* an index beyond a buffer raises IndexError where it is used
step_actuate(steering_cmd, vx_cmd) ==
    /\ sim # NoSimulator
    /\ LET args == [steering_cmd |-> steering_cmd, vx_cmd |-> vx_cmd]
       IN  IF ~IndexOk(sim.X, sim.step_ptr)
           THEN /\ ret' = Raised("step_actuate", args, "IndexError")
                /\ UNCHANGED sim
           ELSE IF ~IndexOk(sim.U, sim.step_ptr)
           THEN /\ ret' = Raised("step_actuate", args, "IndexError")
                /\ UNCHANGED sim
           ELSE IF ~IndexOk(sim.X, sim.step_ptr + 1)
           THEN /\ ret' = Raised("step_actuate", args, "IndexError")
                /\ sim' = [sim EXCEPT !.U[sim.step_ptr + 1] = <<steering_cmd, vx_cmd>>,
                                      !.step_ptr = sim.step_ptr + 1]
           ELSE /\ ret' = Returned("step_actuate", args, <<>>)
                /\ sim' = [sim EXCEPT
                             !.U[sim.step_ptr + 1] = <<steering_cmd, vx_cmd>>,
                             !.step_ptr = sim.step_ptr + 1,
                             !.X[sim.step_ptr + 2] =
                                 rk4_step(sim.plant, sim.step_sz, sim.X[sim.step_ptr + 1],
                                          steering_cmd, vx_cmd)]
    /\ UNCHANGED <<cls, XY_waypoints, idx2arclen, pc, fr, spline, XY_base, caller_XY,
                   seg, file, pose, sel, ctr>>

\* the arguments of the simulator: steps of length 1, durations up to MaxSimSteps,
\* a car at the origin heading along x, at rest or moving; the plant parameters
StepSizes == {R(1)}
SimDurations == {R(n) : n \in 1..MaxSimSteps} \cup {Q(5, 2)}
InitialStates == {<<R(0), R(0), R(0), R(0), v>> : v \in {R(0), R(1)}}
WheelbasesOfPlant == {R(1)}
TimeConstants == {R(0), R(1)}
\* the commands: steering straight, stop or go
SteeringCmds == {R(0)}
VxCmds == {R(0), R(1)}

NextSim ==
    \/ \E h \in StepSizes, d \in SimDurations, x0 \in InitialStates, l \in WheelbasesOfPlant,
          ts \in TimeConstants, tv \in TimeConstants : simulator_init(h, d, x0, l, ts, tv)
    \/ is_completed
    \/ step_get_state
    \/ \E u \in SteeringCmds, v \in VxCmds : step_actuate(u, v)

SpecSim == Init /\ [][NextSim]_vars

\* the rows of buffer a other than row i (0-based) are the same in b
OnlyRowWritten(a, b, i) ==
    /\ Len(b) = Len(a)
    /\ \A j \in DOMAIN a : j # i + 1 => b[j] = a[j]

\* C30: 0 <= step_ptr <= num_steps always; is_completed() holds exactly when
\* step_ptr = num_steps; a step_actuate that succeeds adds 1 to step_ptr and
\* writes row U[old step_ptr] and row X[new step_ptr] only; a step_actuate called
\* when is_completed() raises and changes none of step_ptr, X, U.
C30_StepPointer ==
    /\ [](sim # NoSimulator => (0 <= sim.step_ptr /\ sim.step_ptr <= sim.num_steps))
    /\ [](ret.op = "is_completed" => (ret.val <=> sim.step_ptr = sim.num_steps))
    /\ [][(sim # NoSimulator /\ ret'.op = "step_actuate" /\ ret'.raised = "none") =>
            /\ sim'.step_ptr = sim.step_ptr + 1
            /\ OnlyRowWritten(sim.U, sim'.U, sim.step_ptr)
            /\ sim'.U[sim.step_ptr + 1] = <<ret'.args.steering_cmd, ret'.args.vx_cmd>>
            /\ OnlyRowWritten(sim.X, sim'.X, sim'.step_ptr)
            /\ \A j \in DOMAIN sim'.X[sim'.step_ptr + 1] : IsFinite(sim'.X[sim'.step_ptr + 1][j])]_vars
    /\ [][(sim # NoSimulator /\ ret'.op = "step_actuate") =>
            ((sim.step_ptr >= sim.num_steps) <=> (ret'.raised # "none"))]_vars
    /\ [][(sim # NoSimulator /\ ret'.op = "step_actuate" /\ ret'.raised # "none") =>
            sim' = sim]_vars

\* a simulation of three steps run to its end, and one more step_actuate refused
C30_Witness ==
    /\ sim # NoSimulator
    /\ sim.num_steps = 3
    /\ sim.step_ptr = 3
    /\ ret.op = "step_actuate"
    /\ ret.raised = "IndexError"
    /\ \A j \in 1..5 : IsFinite(sim.X[4][j])
    /\ sim.X[4][1] # R(0)

====
